---- MODULE Spec2Model ----
(***************************************************************************)
(* Model of pick-your-go: the template cache (package cache), the template *)
(* manager (package template) and the project generators.                  *)
(*                                                                         *)
(* Every exported method is one atomic action: the program is synchronous  *)
(* and single-threaded.  The outcomes of the operating system calls a      *)
(* method makes (a write that fails, a clone that fails, the clock read)   *)
(* are inputs of the action, drawn from small sets.                        *)
(***************************************************************************)
EXTENDS Integers, Sequences, FiniteSets, TLC

VARIABLES
    now,    \* the wall clock, in seconds
    doc,    \* the metadata document cache-metadata.json on disk
    mem,    \* mem[m]: the field metadata.Templates of cache manager m
    fs      \* the file system: path -> node, for every existing path

vars == <<now, doc, mem, fs>>

----------------------------------------------------------------------------
(* Bounds and program constants *)

\* How many seconds past the expiry of an entry touched at 0 the clock runs.
MaxPast == 0

Hour == 3600

CacheTTL == 24 * Hour

CacheDirName == ".pick-your-go"

\* The clock values of the model: 0, and the seconds around the expiry of an
\* entry touched at 0.
Instants == {0} \cup ((CacheTTL - 1) .. (CacheTTL + MaxPast))

\* The architecture types whose cache is modelled (hexagonal is symmetric).
Keys == {"layered", "modular"}

\* The order in which os.ReadDir and filepath.Walk list names (by file name).
KeyOrder == <<"layered", "modular">>

\* Architecture types a caller can pass; "custom" has no template.
ArchTypes == Keys \cup {"custom"}

\* tm: the cache manager inside template.Manager; cm: a cache.Manager of its
\* own, as UpdateCommand.Run creates beside the template manager.
Managers == {"tm", "cm"}

----------------------------------------------------------------------------
(* Paths are sequences of names; filepath.Join is concatenation. *)

Join(a, b) == a \o b

Base(p) == p[Len(p)]

Dir(p) == SubSeq(p, 1, Len(p) - 1)

IsUnder(p, root) ==
    /\ Len(p) >= Len(root)
    /\ SubSeq(p, 1, Len(root)) = root

Rel(root, p) == SubSeq(p, Len(root) + 1, Len(p))

\* Absolute paths begin with the root "/"; any other path is relative.
IsAbs(p) == Len(p) > 0 /\ p[1] = "/"

UserCacheDir == <<"/", "cache">>

\* The working directory of the process.
Cwd == <<"/", "work">>

\* Manager.cacheDir: every manager of a run computes the same directory.
cacheDir == Join(UserCacheDir, <<CacheDirName>>)

GetTemplateCachePath(k) == Join(cacheDir, <<k>>)

----------------------------------------------------------------------------
(* Strings are sequences of one-character strings; s[a:b] of Go is          *)
(* Slice(s, a, b).                                                          *)

Slice(s, a, b) == SubSeq(s, a + 1, b)

HasPrefix(s, p) == Len(s) >= Len(p) /\ SubSeq(s, 1, Len(p)) = p

HasSuffix(s, x) == Len(s) >= Len(x) /\ SubSeq(s, Len(s) - Len(x) + 1, Len(s)) = x

TrimPrefix(s, p) == IF HasPrefix(s, p) THEN Slice(s, Len(p), Len(s)) ELSE s

\* strings.Index: the offset of the first occurrence of sub in s, or -1.
Index(s, sub) ==
    LET hits == {i \in 0 .. (Len(s) - Len(sub)) : Slice(s, i, i + Len(sub)) = sub}
    IN  IF hits = {} THEN -1 ELSE CHOOSE i \in hits : \A j \in hits : i <= j

\* strings.Replace(s, old, new, 1)
Replace(s, old, new) ==
    LET i == Index(s, old)
    IN  IF i = -1 THEN s
        ELSE Slice(s, 0, i) \o new \o Slice(s, i + Len(old), Len(s))

IsSpace(c) == c \in {" ", "\t", "\n", "\r"}

TrimSpace(s) ==
    LET keep == {i \in 1 .. Len(s) : ~IsSpace(s[i])}
    IN  IF keep = {} THEN << >>
        ELSE SubSeq(s, CHOOSE i \in keep : \A j \in keep : i <= j,
                       CHOOSE i \in keep : \A j \in keep : i >= j)

RECURSIVE splitLines(_)
splitLines(s) ==
    LET i == Index(s, <<"\n">>)
    IN  IF i = -1 THEN <<s>>
        ELSE <<Slice(s, 0, i)>> \o splitLines(Slice(s, i + 1, Len(s)))

\* strings.Join(lines, "\n")
RECURSIVE JoinLines(_)
JoinLines(lines) ==
    IF Len(lines) = 0 THEN << >>
    ELSE IF Len(lines) = 1 THEN lines[1]
    ELSE lines[1] \o <<"\n">> \o JoinLines(Tail(lines))

\* The spelling of the file names of the model.
Chars(name) ==
    CASE name = "/" -> <<"/">>
      [] name = "cache" -> <<"c", "a", "c", "h", "e">>
      [] name = ".pick-your-go" ->
            <<".", "p", "i", "c", "k", "-", "y", "o", "u", "r", "-", "g", "o">>
      [] name = "layered" -> <<"l", "a", "y", "e", "r", "e", "d">>
      [] name = "modular" -> <<"m", "o", "d", "u", "l", "a", "r">>
      [] name = "work" -> <<"w", "o", "r", "k">>
      [] name = "out" -> <<"o", "u", "t">>
      [] name = "app" -> <<"a", "p", "p">>
      [] name = ".git" -> <<".", "g", "i", "t">>
      [] name = "config" -> <<"c", "o", "n", "f", "i", "g">>
      [] name = "cmd" -> <<"c", "m", "d">>
      [] name = "main.go" -> <<"m", "a", "i", "n", ".", "g", "o">>
      [] name = "go.mod" -> <<"g", "o", ".", "m", "o", "d">>
      [] name = "util.go" -> <<"u", "t", "i", "l", ".", "g", "o">>
      [] name = "vendor" -> <<"v", "e", "n", "d", "o", "r">>
      [] name = "." -> <<".">>
      [] name = "" -> << >>

\* The spelling of an absolute or relative path.
RECURSIVE PathChars(_)
PathChars(p) ==
    IF Len(p) = 0 THEN << >>
    ELSE IF Len(p) = 1 THEN Chars(p[1])
    ELSE (IF p[1] = "/" THEN <<"/">> ELSE Chars(p[1]) \o <<"/">>)
            \o PathChars(Tail(p))

KwModule == <<"m", "o", "d", "u", "l", "e", " ">>

KwImport == <<"i", "m", "p", "o", "r", "t", " ">>

ImportOpen == <<"i", "m", "p", "o", "r", "t", " ", "(">>

ImportClose == <<")">>

Quote == <<"\"">>

DotGo == <<".", "g", "o">>

----------------------------------------------------------------------------
(* Permission bits and the file system *)

Perm644 == {"ur", "uw", "gr", "or"}

Perm664 == Perm644 \cup {"gw"}

Perm755 == {"ur", "uw", "ux", "gr", "gx", "or", "ox"}

Perm666 == Perm664 \cup {"ow"}

Perm777 == Perm755 \cup {"gw", "ow"}

Umask022 == {"gw", "ow"}

Umask002 == {"ow"}

\* The process umasks of the model.
Umasks == {Umask022, Umask002}

DirNode(perm) == [dir |-> TRUE, data |-> << >>, mode |-> perm]

FileNode(data, perm) == [dir |-> FALSE, data |-> data, mode |-> perm]

Exists(f, p) == p \in DOMAIN f

Restrict(f, S) == [p \in S |-> f[p]]

RemoveAll(f, p) == Restrict(f, {q \in DOMAIN f : ~IsUnder(q, p)})

Prefixes(p) == {SubSeq(p, 1, n) : n \in 1 .. Len(p)}

\* os.MkdirAll: ok is FALSE when a path on the way exists and is a file.
MkdirAll(f, p, perm, umask) ==
    LET blocked == \E q \in Prefixes(p) : Exists(f, q) /\ ~f[q].dir
        new == {q \in Prefixes(p) : ~Exists(f, q)}
    IN  IF blocked THEN [ok |-> FALSE, fs |-> f]
        ELSE [ok |-> TRUE,
              fs |-> [q \in DOMAIN f \cup new |->
                        IF q \in new THEN DirNode(perm \ umask) ELSE f[q]]]

\* os.WriteFile: creates with perm masked by the umask, or truncates an
\* existing file and keeps its mode.
WriteFile(f, p, data, perm, umask) ==
    IF Exists(f, p) /\ f[p].dir THEN [ok |-> FALSE, fs |-> f]
    ELSE IF ~Exists(f, Dir(p)) \/ ~f[Dir(p)].dir THEN [ok |-> FALSE, fs |-> f]
    ELSE IF Exists(f, p) THEN [ok |-> TRUE, fs |-> [f EXCEPT ![p].data = data]]
    ELSE [ok |-> TRUE,
          fs |-> [q \in DOMAIN f \cup {p} |->
                    IF q = p THEN FileNode(data, perm \ umask) ELSE f[q]]]

\* The subtree below root, by relative path.
Tree(f, root) ==
    [r \in {Rel(root, p) : p \in {q \in DOMAIN f : IsUnder(q, root) /\ q # root}}
        |-> f[Join(root, r)]]

----------------------------------------------------------------------------
(* The metadata document and the in-memory map *)

EmptyMap == [k \in {} |-> 0]

Put(map, k, v) == [x \in DOMAIN map \cup {k} |-> IF x = k THEN v ELSE map[x]]

Delete(map, k) == [x \in DOMAIN map \ {k} |-> map[x]]

\* json.Unmarshal into a struct whose map field is not nil: the map is
\* reused, the keys of the document are set, the other keys are kept.
Unmarshal(data, into) ==
    [x \in DOMAIN into \cup DOMAIN data |->
        IF x \in DOMAIN data THEN data[x] ELSE into[x]]

MissingDoc == [kind |-> "missing", templates |-> EmptyMap]

CorruptDoc == [kind |-> "corrupt", templates |-> EmptyMap]

OkDoc(map) == [kind |-> "ok", templates |-> map]

TemplateCacheInfo(c, l, p) == [cachedAt |-> c, lastChecked |-> l, path |-> p]

\* A clock read that follows another one: the same second or the next.
Now(w, skew) == IF skew /\ (w.now + 1) \in Instants THEN w.now + 1 ELSE w.now

Since(w, t) == w.now - t

\* Mutant of loadMetadata: a document that does not parse is not reported.
loadMetadataIgnoresParseError(w, m) ==
    IF w.doc.kind = "missing"
    THEN [w |-> [w EXCEPT !.mem[m] = EmptyMap], err |-> "nil"]
    ELSE IF w.doc.kind = "corrupt"
    THEN [w |-> w, err |-> "nil"]
    ELSE [w |-> [w EXCEPT !.mem[m] = Unmarshal(w.doc.templates, w.mem[m])],
          err |-> "nil"]

loadMetadata(w, m) ==
    IF w.doc.kind = "missing"
    THEN [w |-> [w EXCEPT !.mem[m] = EmptyMap], err |-> "nil"]
    ELSE IF w.doc.kind = "corrupt"
    THEN [w |-> w, err |-> "failed to parse metadata"]
    ELSE [w |-> [w EXCEPT !.mem[m] = Unmarshal(w.doc.templates, w.mem[m])],
          err |-> "nil"]

\* io.fault names the operating system call that fails during the handler
\* ("none": no call fails).  os.WriteFile fails either when it opens the
\* file ("open": the file is left as it was) or when it writes ("trunc": the
\* file was truncated and holds no document any more).
saveMetadata(w, m, io) ==
    IF io.fault = "open"
    THEN [w |-> w, err |-> "failed to write metadata file"]
    ELSE IF io.fault = "trunc"
    THEN [w |-> [w EXCEPT !.doc = CorruptDoc], err |-> "failed to write metadata file"]
    ELSE [w |-> [w EXCEPT !.doc = OkDoc(w.mem[m])], err |-> "nil"]

IsCached(w, m, k) ==
    LET l == loadMetadata(w, m)
    IN  IF l.err # "nil" THEN [w |-> l.w, ret |-> FALSE]
        ELSE IF k \notin DOMAIN l.w.mem[m] THEN [w |-> l.w, ret |-> FALSE]
        ELSE [w |-> l.w, ret |-> Since(l.w, l.w.mem[m][k].cachedAt) < CacheTTL]

UpdateCacheTime(w, m, k, io) ==
    LET l == loadMetadata(w, m)
    IN  IF l.err # "nil" THEN [w |-> l.w, ret |-> "failed to load metadata"]
        ELSE
          LET t1 == l.w.now
              t2 == Now(l.w, io.skew)
              info == TemplateCacheInfo(t1, t2, GetTemplateCachePath(k))
              w1 == [l.w EXCEPT !.mem[m] = Put(l.w.mem[m], k, info), !.now = t2]
              s == saveMetadata(w1, m, io)
          IN  IF s.err # "nil" THEN [w |-> s.w, ret |-> "failed to save metadata"]
              ELSE [w |-> s.w, ret |-> "nil"]

ClearTemplateCache(w, m, k, io) ==
    LET cachePath == GetTemplateCachePath(k)
        stat == Exists(w.fs, cachePath)
    IN  IF stat /\ io.fault = "rm" THEN [w |-> w, ret |-> "failed to remove template cache"]
        ELSE
          LET w1 == IF stat THEN [w EXCEPT !.fs = RemoveAll(w.fs, cachePath)] ELSE w
              l == loadMetadata(w1, m)
          IN  IF l.err # "nil" THEN [w |-> l.w, ret |-> "failed to load metadata"]
              ELSE
                LET w2 == [l.w EXCEPT !.mem[m] = Delete(l.w.mem[m], k)]
                    s == saveMetadata(w2, m, io)
                IN  IF s.err # "nil"
                    THEN [w |-> s.w, ret |-> "failed to save metadata"]
                    ELSE [w |-> s.w, ret |-> "nil"]

\* The directories os.ReadDir lists in cacheDir, in its order.
CacheSubdirs(f) ==
    SelectSeq(KeyOrder, LAMBDA k : Exists(f, GetTemplateCachePath(k))
                                    /\ f[GetTemplateCachePath(k)].dir)

RECURSIVE RemoveEach(_, _, _, _)
\* The loop of ClearCache over dirs from index i; the os.RemoveAll of the
\* directory named failAt fails.
RemoveEach(f, dirs, i, failAt) ==
    IF i > Len(dirs) THEN [fs |-> f, ok |-> TRUE]
    ELSE IF dirs[i] = failAt THEN [fs |-> f, ok |-> FALSE]
    ELSE RemoveEach(RemoveAll(f, GetTemplateCachePath(dirs[i])), dirs, i + 1, failAt)

ClearCache(w, m, io) ==
    IF io.fault = "readdir" THEN [w |-> w, ret |-> "failed to read cache directory"]
    ELSE
      LET r == RemoveEach(w.fs, CacheSubdirs(w.fs), 1, io.failAt)
          w1 == [w EXCEPT !.fs = r.fs]
      IN  IF ~r.ok THEN [w |-> w1, ret |-> "failed to remove"]
          ELSE
            LET w2 == [w1 EXCEPT !.mem[m] = EmptyMap]
                s == saveMetadata(w2, m, io)
            IN  IF s.err # "nil" THEN [w |-> s.w, ret |-> "failed to save metadata"]
                ELSE [w |-> s.w, ret |-> "nil"]

----------------------------------------------------------------------------
(* The template manager *)

\* getDefaultTemplates: the architecture types that have a template.
DefaultTemplates == {"layered", "modular", "hexagonal"}

GetTemplate(k) == IF k \in DefaultTemplates THEN "nil" ELSE "template not found"

HttpsPrefix == <<"h", "t", "t", "p", "s", ":", "/", "/">>

HttpPrefix == <<"h", "t", "t", "p", ":", "/", "/">>

\* Template.Repository of template k: https://h/l, https://h/m, https://h/x.
Repository(k) ==
    HttpsPrefix \o <<"h", "/">>
      \o (IF k = "layered" THEN <<"l">> ELSE IF k = "modular" THEN <<"m">> ELSE <<"x">>)

\* Mutant of buildAuthenticatedURL: the token is put behind the host.
buildAuthenticatedURLBehindHost(repoURL, token) ==
    IF token = << >> THEN repoURL
    ELSE HttpsPrefix \o TrimPrefix(TrimPrefix(repoURL, HttpsPrefix), HttpPrefix)
           \o <<"@">> \o token

buildAuthenticatedURL(repoURL, token) ==
    IF token = << >> THEN repoURL
    ELSE HttpsPrefix \o token \o <<"@">>
           \o TrimPrefix(TrimPrefix(repoURL, HttpsPrefix), HttpPrefix)

\* The part of a URL behind its scheme, and behind the user information
\* when there is an "@" before the first "/".
HostAndPath(url) ==
    LET rest == TrimPrefix(TrimPrefix(url, HttpsPrefix), HttpPrefix)
        at == Index(rest, <<"@">>)
        slash == Index(rest, <<"/">>)
    IN  IF at # -1 /\ (slash = -1 \/ at < slash) THEN Slice(rest, at + 1, Len(rest))
        ELSE rest

\* The templates whose repository the remote serves at url.
Served(url) ==
    {k \in DefaultTemplates :
        /\ HasPrefix(url, HttpsPrefix) \/ HasPrefix(url, HttpPrefix)
        /\ HostAndPath(url) = HostAndPath(Repository(k))}

\* The module path the go.mod of template k declares.
TemplateModule(k) == IF k = "layered" THEN <<"t", "/", "l">> ELSE <<"t", "/", "m">>

\* go.mod of template k: "module t/l", "go 1".
GoModText(k) == KwModule \o TemplateModule(k) \o <<"\n", "g", "o", " ", "1", "\n">>

\* cmd/main.go of template k: import "t/l/x".
MainGoText(k) == KwImport \o Quote \o TemplateModule(k) \o <<"/", "x">> \o Quote \o <<"\n">>

\* The tree of the remote repository of template k, by relative path, with
\* the modes git asks for when it checks the files out (before the umask).
RemoteTree(k) ==
    (<<"cmd">> :> DirNode(Perm777))
    @@ (<<"cmd", "main.go">> :> FileNode(MainGoText(k), Perm666))
    @@ (<<"go.mod">> :> FileNode(GoModText(k), Perm666))

\* The repository bookkeeping a clone creates beside the checked out files.
GitTree(k) ==
    (<<".git">> :> DirNode(Perm777))
    @@ (<<".git", "config">> :> FileNode(<<"config", k>>, Perm666))

\* What an interrupted clone can leave behind.
PartialTree(k) == GitTree(k) @@ (<<"go.mod">> :> FileNode(GoModText(k), Perm666))

Graft(f, root, tree, umask) ==
    [p \in DOMAIN f \cup {root} \cup {Join(root, r) : r \in DOMAIN tree} |->
        IF p = root THEN DirNode(Perm777 \ umask)
        ELSE IF IsUnder(p, root)
        THEN [tree[Rel(root, p)] EXCEPT !.mode = @ \ umask]
        ELSE f[p]]

\* git clone --depth 1 into cachePath: it refuses an existing directory that
\* is not empty; a clone that fails removes what it wrote ("clone") unless
\* it is interrupted ("cloneleft").
GitClone(f, k, repoURL, cachePath, io) ==
    IF Exists(f, cachePath) THEN [ok |-> FALSE, fs |-> f]
    ELSE IF k \notin Served(repoURL) THEN [ok |-> FALSE, fs |-> f]
    ELSE IF io.fault = "clone" THEN [ok |-> FALSE, fs |-> f]
    ELSE IF io.fault = "cloneleft"
    THEN [ok |-> FALSE, fs |-> Graft(f, cachePath, PartialTree(k), io.umask)]
    ELSE [ok |-> TRUE, fs |-> Graft(f, cachePath, GitTree(k) @@ RemoteTree(k), io.umask)]

\* Mutant of cloneTemplate: .git is never removed.
cloneTemplateKeepsGit(w, k, cachePath, io) ==
    IF io.fault = "mkdir" THEN [w |-> w, ret |-> "failed to create cache directory"]
    ELSE
      LET c == GitClone(w.fs, k, buildAuthenticatedURL(Repository(k), io.token),
                        cachePath, io)
      IN  IF ~c.ok THEN [w |-> [w EXCEPT !.fs = c.fs], ret |-> "failed to clone repository"]
          ELSE [w |-> [w EXCEPT !.fs = c.fs], ret |-> "nil"]

cloneTemplate(w, k, cachePath, io) ==
    IF io.fault = "mkdir" THEN [w |-> w, ret |-> "failed to create cache directory"]
    ELSE
      LET c == GitClone(w.fs, k, buildAuthenticatedURL(Repository(k), io.token),
                        cachePath, io)
      IN  IF ~c.ok THEN [w |-> [w EXCEPT !.fs = c.fs], ret |-> "failed to clone repository"]
          ELSE
            LET gitDir == Join(cachePath, <<".git">>)
                \* a failure to remove .git is only warned about
                f2 == IF io.strip THEN RemoveAll(c.fs, gitDir) ELSE c.fs
            IN  [w |-> [w EXCEPT !.fs = f2], ret |-> "nil"]

\* Mutant of pullTemplate: the pull succeeds.
pullTemplateSucceeds(cachePath) == "nil"

pullTemplate(cachePath) == "pull not supported, please re-clone"

\* pulls, removes, clones count the pull attempts, the deletions of the
\* storage directory and the clone runs of the call.
UpdateTemplate(w, m, k, io) ==
    IF GetTemplate(k) # "nil"
    THEN [w |-> w, ret |-> "failed to get template", pulls |-> 0, removes |-> 0, clones |-> 0]
    ELSE
      LET cachePath == GetTemplateCachePath(k)
          stat == Exists(w.fs, cachePath)
          pullFails == stat /\ pullTemplate(cachePath) # "nil"
          rmFails == pullFails /\ io.fault = "rm"
          w1 == IF pullFails /\ ~rmFails
                THEN [w EXCEPT !.fs = RemoveAll(w.fs, cachePath)] ELSE w
          c == cloneTemplate(w1, k, cachePath, io)
          np == IF stat THEN 1 ELSE 0
          nr == IF pullFails THEN 1 ELSE 0
      IN  IF rmFails
          THEN [w |-> w, ret |-> "failed to remove old cache",
                pulls |-> np, removes |-> nr, clones |-> 0]
          ELSE IF (pullFails \/ ~stat) /\ c.ret # "nil"
          THEN [w |-> c.w, ret |-> c.ret, pulls |-> np, removes |-> nr, clones |-> 1]
          ELSE
            LET w2 == IF pullFails \/ ~stat THEN c.w ELSE w
                u == UpdateCacheTime(w2, m, k, io)
            IN  [w |-> u.w, ret |-> u.ret, pulls |-> np, removes |-> nr,
                 clones |-> IF pullFails \/ ~stat THEN 1 ELSE 0]

\* Mutant of EnsureTemplateCached: the freshness check is ignored.
EnsureTemplateCachedAlwaysFetches(w, m, k, io) ==
    LET c == IsCached(w, m, k)
        u == UpdateTemplate(c.w, m, k, io)
    IN  [w |-> u.w, ret |-> u.ret, fetches |-> 1, pulls |-> u.pulls,
         removes |-> u.removes, clones |-> u.clones]

\* fetches counts the calls of UpdateTemplate.
EnsureTemplateCached(w, m, k, io) ==
    LET c == IsCached(w, m, k)
    IN  IF c.ret
        THEN [w |-> c.w, ret |-> "nil", fetches |-> 0, pulls |-> 0, removes |-> 0,
              clones |-> 0]
        ELSE
          LET u == UpdateTemplate(c.w, m, k, io)
          IN  [w |-> u.w, ret |-> u.ret, fetches |-> 1, pulls |-> u.pulls,
               removes |-> u.removes, clones |-> u.clones]

ClearAllCache(w, m, io) == ClearCache(w, m, io)

----------------------------------------------------------------------------
(* Package config *)

\* ProjectName is a file name, ModulePath a string, OutputDir a path; << >>
\* is the empty string.
Config(name, module, arch, out) ==
    [ProjectName |-> name, ModulePath |-> module, Architecture |-> arch,
     OutputDir |-> out]

\* Mutant of Validate: an empty module path is accepted.
ValidateWithoutModulePath(cfg) ==
    IF cfg.ProjectName = "" THEN [cfg |-> cfg, err |-> "project name is required"]
    ELSE IF cfg.Architecture = ""
    THEN [cfg |-> cfg, err |-> "architecture type is required"]
    ELSE IF cfg.OutputDir = << >>
    THEN [cfg |-> [cfg EXCEPT !.OutputDir = <<".">>], err |-> "nil"]
    ELSE [cfg |-> cfg, err |-> "nil"]

\* Config.Validate: the error, and the configuration as the call leaves it.
Validate(cfg) ==
    IF cfg.ProjectName = "" THEN [cfg |-> cfg, err |-> "project name is required"]
    ELSE IF cfg.ModulePath = << >> THEN [cfg |-> cfg, err |-> "module path is required"]
    ELSE IF cfg.Architecture = ""
    THEN [cfg |-> cfg, err |-> "architecture type is required"]
    ELSE IF cfg.OutputDir = << >>
    THEN [cfg |-> [cfg EXCEPT !.OutputDir = <<".">>], err |-> "nil"]
    ELSE [cfg |-> cfg, err |-> "nil"]

NotDot(name) == name # "."

\* filepath.Clean, for paths without "..".
Clean(p) ==
    LET q == SelectSeq(p, NotDot)
    IN  IF q = << >> THEN <<".">> ELSE q

\* filepath.Abs: it fails only when the working directory cannot be read.
Abs(p, io) ==
    IF IsAbs(p) THEN [path |-> Clean(p), ok |-> TRUE]
    ELSE IF io.fault = "getwd" THEN [path |-> << >>, ok |-> FALSE]
    ELSE [path |-> Clean(Join(Cwd, p)), ok |-> TRUE]

GetProjectPath(cfg, io) ==
    LET a == Abs(cfg.OutputDir, io)
        outputDirAbs == IF a.ok THEN a.path ELSE cfg.OutputDir
        projectPath == Clean(Join(outputDirAbs, <<cfg.ProjectName>>))
        b == Abs(projectPath, io)
    IN  IF b.ok THEN b.path ELSE projectPath

----------------------------------------------------------------------------
(* Copying a cached template *)

GetTemplatePath(w, m, k) ==
    LET c == IsCached(w, m, k)
    IN  IF ~c.ret THEN [w |-> c.w, path |-> << >>, err |-> "template not cached"]
        ELSE [w |-> c.w, path |-> GetTemplateCachePath(k), err |-> "nil"]

\* The file names of a template, in the order filepath.Walk lists them.
NameOrder == <<".git", "cmd", "config", "go.mod", "main.go", "util.go", "vendor">>

Rank(name) == CHOOSE i \in 1 .. Len(NameOrder) : NameOrder[i] = name

\* Walk visits a directory before its entries, and entries by name.
RECURSIVE PathLess(_, _)
PathLess(p, q) ==
    IF Len(p) = 0 THEN Len(q) > 0
    ELSE IF Len(q) = 0 THEN FALSE
    ELSE IF p[1] = q[1] THEN PathLess(Tail(p), Tail(q))
    ELSE Rank(p[1]) < Rank(q[1])

RECURSIVE SortPaths(_)
SortPaths(S) ==
    IF S = {} THEN << >>
    ELSE LET first == CHOOSE x \in S : \A y \in S \ {x} : PathLess(x, y)
         IN  <<first>> \o SortPaths(S \ {first})

\* The paths filepath.Walk(root) visits, root first.
WalkOrder(f, root) ==
    LET rels == SortPaths({Rel(root, p) : p \in {q \in DOMAIN f : IsUnder(q, root)}})
    IN  [i \in 1 .. Len(rels) |-> Join(root, rels[i])]

copyFile(f, src, dst, mode, io) ==
    IF ~Exists(f, src) \/ f[src].dir \/ (io.fault = "read" /\ Base(src) = io.failAt)
    THEN [fs |-> f, err |-> "failed to read source file"]
    ELSE
      LET d == MkdirAll(f, Dir(dst), Perm755, io.umask)
      IN  IF ~d.ok THEN [fs |-> d.fs, err |-> "failed to create destination directory"]
          ELSE
            \* os.WriteFile fails when it opens the file ("write"), or after
                \* it created the file and before it wrote the data ("short")
            LET wr == IF io.fault = "write" /\ Base(dst) = io.failAt
                      THEN [ok |-> FALSE, fs |-> d.fs]
                      ELSE IF io.fault = "short" /\ Base(dst) = io.failAt
                      THEN [ok |-> FALSE,
                            fs |-> WriteFile(d.fs, dst, << >>, mode, io.umask).fs]
                      ELSE WriteFile(d.fs, dst, f[src].data, mode, io.umask)
            IN  IF ~wr.ok THEN [fs |-> wr.fs, err |-> "failed to write destination file"]
                ELSE [fs |-> wr.fs, err |-> "nil"]

\* The walk function of CopyTemplateToDestination at path; skip holds the
\* directories filepath.SkipDir has closed.
CopyVisit(f, path, skip, cachePath, destPath, io) ==
    LET info == f[path]
        targetPath == Join(destPath, Rel(cachePath, path))
    IN  IF path = cachePath THEN [fs |-> f, skip |-> skip, err |-> "nil"]
        ELSE IF Base(path) = ".git"
        THEN [fs |-> f, skip |-> skip \cup {IF info.dir THEN path ELSE Dir(path)},
              err |-> "nil"]
        ELSE IF info.dir
        THEN LET d == MkdirAll(f, targetPath, info.mode, io.umask)
             IN  [fs |-> d.fs, skip |-> skip,
                  err |-> IF d.ok THEN "nil" ELSE "mkdir failed"]
        ELSE LET c == copyFile(f, path, targetPath, info.mode, io)
             IN  [fs |-> c.fs, skip |-> skip, err |-> c.err]

\* Mutant of CopyWalk: an error of the walk function is reported at the end
\* of the walk, which goes on.
RECURSIVE CopyWalkGoesOn(_, _, _, _, _, _, _)
CopyWalkGoesOn(f, list, i, skip, cachePath, destPath, io) ==
    IF i > Len(list) THEN [fs |-> f, err |-> "nil"]
    ELSE
      LET v == IF \E s \in skip : IsUnder(list[i], s)
               THEN [fs |-> f, skip |-> skip, err |-> "nil"]
               ELSE CopyVisit(f, list[i], skip, cachePath, destPath, io)
          rest == CopyWalkGoesOn(v.fs, list, i + 1, v.skip, cachePath, destPath, io)
      IN  IF v.err # "nil" THEN [fs |-> rest.fs, err |-> v.err] ELSE rest

\* filepath.Walk over list[i] and on: a closed directory is not entered, and
\* the first error ends the walk.
RECURSIVE CopyWalk(_, _, _, _, _, _, _)
CopyWalk(f, list, i, skip, cachePath, destPath, io) ==
    IF i > Len(list) THEN [fs |-> f, err |-> "nil"]
    ELSE
      LET v == IF \E s \in skip : IsUnder(list[i], s)
               THEN [fs |-> f, skip |-> skip, err |-> "nil"]
               ELSE CopyVisit(f, list[i], skip, cachePath, destPath, io)
      IN  IF v.err # "nil" THEN [fs |-> v.fs, err |-> v.err]
          ELSE CopyWalk(v.fs, list, i + 1, v.skip, cachePath, destPath, io)

\* names: the path the error message of the first check ends with.
CopyTemplateToDestination(w, m, k, destPath, io) ==
    IF ~IsAbs(destPath)
    THEN [w |-> w, ret |-> "BUG: destPath is not absolute", names |-> destPath]
    ELSE
      LET g == GetTemplatePath(w, m, k)
      IN  IF g.err # "nil"
          THEN [w |-> g.w, ret |-> "failed to get template path", names |-> << >>]
          ELSE IF ~Exists(g.w.fs, g.path)
          THEN [w |-> g.w, ret |-> "lstat failed", names |-> << >>]
          ELSE
            LET c == CopyWalk(g.w.fs, WalkOrder(g.w.fs, g.path), 1, {}, g.path,
                              destPath, io)
            IN  [w |-> [g.w EXCEPT !.fs = c.fs], ret |-> c.err, names |-> << >>]

----------------------------------------------------------------------------
(* Package generator *)

\* The first line of lines that begins with "module ", or 0.
ModuleLine(lines) ==
    LET hits == {i \in 1 .. Len(lines) : HasPrefix(lines[i], KwModule)}
    IN  IF hits = {} THEN 0 ELSE CHOOSE i \in hits : \A j \in hits : i <= j

\* Mutant of extractOriginalModulePath: the last module line is read.
extractOriginalModulePathLastLine(f, goModPath) ==
    IF ~IsAbs(goModPath) THEN [module |-> << >>, err |-> "BUG: goModPath is not absolute"]
    ELSE IF ~Exists(f, goModPath)
    THEN [module |-> << >>, err |-> "go.mod file does not exist"]
    ELSE IF f[goModPath].dir THEN [module |-> << >>, err |-> "failed to read go.mod file"]
    ELSE
      LET lines == splitLines(f[goModPath].data)
          hits == {i \in 1 .. Len(lines) : HasPrefix(lines[i], KwModule)}
      IN  IF hits = {} THEN [module |-> << >>, err |-> "no module declaration found"]
          ELSE [module |-> TrimSpace(TrimPrefix(
                               lines[CHOOSE i \in hits : \A j \in hits : j <= i],
                               KwModule)),
                err |-> "nil"]

extractOriginalModulePath(f, goModPath) ==
    IF ~IsAbs(goModPath) THEN [module |-> << >>, err |-> "BUG: goModPath is not absolute"]
    ELSE IF ~Exists(f, goModPath)
    THEN [module |-> << >>, err |-> "go.mod file does not exist"]
    ELSE IF f[goModPath].dir THEN [module |-> << >>, err |-> "failed to read go.mod file"]
    ELSE
      LET lines == splitLines(f[goModPath].data)
          i == ModuleLine(lines)
      IN  IF i = 0 THEN [module |-> << >>, err |-> "no module declaration found"]
          ELSE [module |-> TrimSpace(TrimPrefix(lines[i], KwModule)), err |-> "nil"]

\* Mutant of updateGoModule: every module line is replaced.
updateGoModuleEveryLine(f, goModPath, modulePath, io) ==
    IF ~IsAbs(goModPath) THEN [fs |-> f, err |-> "BUG: goModPath is not absolute"]
    ELSE IF ~Exists(f, goModPath) THEN [fs |-> f, err |-> "go.mod file does not exist"]
    ELSE IF f[goModPath].dir THEN [fs |-> f, err |-> "failed to read go.mod file"]
    ELSE
      LET lines == splitLines(f[goModPath].data)
          out == [i \in 1 .. Len(lines) |->
                     IF HasPrefix(lines[i], KwModule) THEN KwModule \o modulePath
                     ELSE lines[i]]
          wr == IF io.fault = "gomod" THEN [ok |-> FALSE, fs |-> f]
                ELSE WriteFile(f, goModPath, JoinLines(out), Perm644, io.umask)
      IN  IF ~wr.ok THEN [fs |-> wr.fs, err |-> "failed to write go.mod file"]
          ELSE [fs |-> wr.fs, err |-> "nil"]

updateGoModule(f, goModPath, modulePath, io) ==
    IF ~IsAbs(goModPath) THEN [fs |-> f, err |-> "BUG: goModPath is not absolute"]
    ELSE IF ~Exists(f, goModPath) THEN [fs |-> f, err |-> "go.mod file does not exist"]
    ELSE IF f[goModPath].dir THEN [fs |-> f, err |-> "failed to read go.mod file"]
    ELSE
      LET lines == splitLines(f[goModPath].data)
          i == ModuleLine(lines)
          out == IF i = 0 THEN lines ELSE [lines EXCEPT ![i] = KwModule \o modulePath]
          wr == IF io.fault = "gomod" THEN [ok |-> FALSE, fs |-> f]
                ELSE WriteFile(f, goModPath, JoinLines(out), Perm644, io.umask)
      IN  IF ~wr.ok THEN [fs |-> wr.fs, err |-> "failed to write go.mod file"]
          ELSE [fs |-> wr.fs, err |-> "nil"]

RECURSIVE replaceModulePathInLineFrom(_, _, _, _)

\* Mutant of replaceModulePathInLineStep: quoteEnd is not adjusted after a
\* replacement.
replaceModulePathInLineStepKeepsQuoteEnd(line, start, oldModule, newModule) ==
    LET q1 == Index(Slice(line, start, Len(line)), Quote)
        quoteStart == q1 + start
        q2 == Index(Slice(line, quoteStart + 1, Len(line)), Quote)
        quoteEnd == q2 + quoteStart + 1
        quotedPath == Slice(line, quoteStart + 1, quoteEnd)
        matches == \/ quotedPath = oldModule
                   \/ HasPrefix(quotedPath, oldModule \o <<"/">>)
        newPath == Replace(quotedPath, oldModule, newModule)
    IN  IF q1 = -1 \/ q2 = -1
        THEN [done |-> TRUE, line |-> line, start |-> start,
              slices |-> {<<start, Len(line)>>}
                           \cup (IF q1 = -1 THEN {} ELSE {<<quoteStart + 1, Len(line)>>})]
        ELSE [done |-> FALSE,
              line |-> IF matches
                       THEN Slice(line, 0, quoteStart + 1) \o newPath
                              \o Slice(line, quoteEnd, Len(line))
                       ELSE line,
              start |-> quoteEnd + 1,
              slices |-> {<<start, Len(line)>>, <<quoteStart + 1, Len(line)>>,
                          <<quoteStart + 1, quoteEnd>>}
                           \cup (IF matches
                                 THEN {<<0, quoteStart + 1>>, <<quoteEnd, Len(line)>>}
                                 ELSE {})]

\* One iteration of the loop of replaceModulePathInLine at offset start:
\* whether the loop is left, the line and the offset of the next iteration,
\* and the index pairs <<low, high>> of the slices of line it took.
replaceModulePathInLineStep(line, start, oldModule, newModule) ==
    LET q1 == Index(Slice(line, start, Len(line)), Quote)
        quoteStart == q1 + start
        q2 == Index(Slice(line, quoteStart + 1, Len(line)), Quote)
        quoteEnd == q2 + quoteStart + 1
        quotedPath == Slice(line, quoteStart + 1, quoteEnd)
        matches == \/ quotedPath = oldModule
                   \/ HasPrefix(quotedPath, oldModule \o <<"/">>)
        newPath == Replace(quotedPath, oldModule, newModule)
    IN  IF q1 = -1 \/ q2 = -1
        THEN [done |-> TRUE, line |-> line, start |-> start,
              slices |-> {<<start, Len(line)>>}
                           \cup (IF q1 = -1 THEN {} ELSE {<<quoteStart + 1, Len(line)>>})]
        ELSE [done |-> FALSE,
              line |-> IF matches
                       THEN Slice(line, 0, quoteStart + 1) \o newPath
                              \o Slice(line, quoteEnd, Len(line))
                       ELSE line,
              start |-> IF matches THEN quoteStart + 1 + Len(newPath) + 1
                        ELSE quoteEnd + 1,
              slices |-> {<<start, Len(line)>>, <<quoteStart + 1, Len(line)>>,
                          <<quoteStart + 1, quoteEnd>>}
                           \cup (IF matches
                                 THEN {<<0, quoteStart + 1>>, <<quoteEnd, Len(line)>>}
                                 ELSE {})]

\* The loop after the iteration s.
replaceModulePathInLineNext(s, oldModule, newModule) ==
    IF s.done THEN s.line
    ELSE replaceModulePathInLineFrom(s.line, s.start, oldModule, newModule)

\* Mutant of replaceModulePathInLineFrom: a quoted path matches when it
\* begins with oldModule.
RECURSIVE replaceModulePathInLineFromAnyPrefix(_, _, _, _)
replaceModulePathInLineFromAnyPrefix(line, start, oldModule, newModule) ==
    LET q1 == Index(Slice(line, start, Len(line)), Quote)
        quoteStart == q1 + start
        q2 == Index(Slice(line, quoteStart + 1, Len(line)), Quote)
        quoteEnd == q2 + quoteStart + 1
        quotedPath == Slice(line, quoteStart + 1, quoteEnd)
        matches == HasPrefix(quotedPath, oldModule)
        newPath == Replace(quotedPath, oldModule, newModule)
    IN  IF q1 = -1 THEN line
        ELSE IF q2 = -1 THEN line
        ELSE replaceModulePathInLineFromAnyPrefix(
                 IF matches
                 THEN Slice(line, 0, quoteStart + 1) \o newPath
                        \o Slice(line, quoteEnd, Len(line))
                 ELSE line,
                 IF matches THEN quoteStart + 1 + Len(newPath) + 1 ELSE quoteEnd + 1,
                 oldModule, newModule)

\* The loop of replaceModulePathInLine, from offset start on.
replaceModulePathInLineFrom(line, start, oldModule, newModule) ==
    replaceModulePathInLineNext(
        replaceModulePathInLineStep(line, start, oldModule, newModule),
        oldModule, newModule)

\* Mutant of replaceModulePathInLine: the scan ends after the first pair of
\* quotes.
replaceModulePathInLineFirst(line, oldModule, newModule) ==
    LET quoteStart == Index(line, Quote)
        q2 == Index(Slice(line, quoteStart + 1, Len(line)), Quote)
        quoteEnd == q2 + quoteStart + 1
        quotedPath == Slice(line, quoteStart + 1, quoteEnd)
    IN  IF quoteStart = -1 THEN line
        ELSE IF q2 = -1 THEN line
        ELSE IF quotedPath = oldModule \/ HasPrefix(quotedPath, oldModule \o <<"/">>)
        THEN Slice(line, 0, quoteStart + 1)
               \o Replace(quotedPath, oldModule, newModule)
               \o Slice(line, quoteEnd, Len(line))
        ELSE line

replaceModulePathInLine(line, oldModule, newModule) ==
    replaceModulePathInLineFrom(line, 0, oldModule, newModule)

\* Mutant of replaceImportLines: every line is rewritten.
RECURSIVE replaceImportLinesEveryLine(_, _, _, _, _)
replaceImportLinesEveryLine(lines, i, inImportBlock, oldModule, newModule) ==
    IF i > Len(lines) THEN lines
    ELSE replaceImportLinesEveryLine(
             [lines EXCEPT ![i] = replaceModulePathInLine(lines[i], oldModule, newModule)],
             i + 1, inImportBlock, oldModule, newModule)

\* The loop of replaceImportPaths, from line i on.
RECURSIVE replaceImportLines(_, _, _, _, _)
replaceImportLines(lines, i, inImportBlock, oldModule, newModule) ==
    IF i > Len(lines) THEN lines
    ELSE
      LET line == lines[i]
          trimmedLine == TrimSpace(line)
          opens == trimmedLine = ImportOpen
          closes == ~opens /\ inImportBlock /\ trimmedLine = ImportClose
          candidate == /\ ~opens
                       /\ ~closes
                       /\ (HasPrefix(trimmedLine, KwImport) \/ inImportBlock)
      IN  replaceImportLines(
              IF candidate
              THEN [lines EXCEPT ![i] = replaceModulePathInLine(line, oldModule, newModule)]
              ELSE lines,
              i + 1,
              IF opens THEN TRUE ELSE IF closes THEN FALSE ELSE inImportBlock,
              oldModule, newModule)

replaceImportPaths(content, oldModule, newModule) ==
    JoinLines(replaceImportLines(splitLines(content), 1, FALSE, oldModule, newModule))

updateImportPathsInFile(f, filePath, oldModule, newModule, io) ==
    IF ~Exists(f, filePath) \/ f[filePath].dir
       \/ (io.fault = "goread" /\ Base(filePath) = io.failAt)
    THEN [fs |-> f, err |-> "failed to read file"]
    ELSE
      LET originalContent == f[filePath].data
          contentStr == replaceImportPaths(originalContent, oldModule, newModule)
      IN  IF contentStr = originalContent THEN [fs |-> f, err |-> "nil"]
          ELSE
            LET wr == IF io.fault = "gowrite" /\ Base(filePath) = io.failAt
                      THEN [ok |-> FALSE, fs |-> f]
                      ELSE WriteFile(f, filePath, contentStr, Perm644, io.umask)
            IN  IF ~wr.ok THEN [fs |-> wr.fs, err |-> "failed to write file"]
                ELSE [fs |-> wr.fs, err |-> "nil"]

\* The walk function after updateImportPathsInFile returned u at path: an
\* error is only warned about.  warned: the file the warning names.
FileVisited(u, path, skip) ==
    [fs |-> u.fs, skip |-> skip, warned |-> IF u.err # "nil" THEN {path} ELSE {}]

\* Mutant of ImportVisit: every file is processed, whatever its name.
ImportVisitEveryFile(f, path, skip, oldModule, newModule, io) ==
    IF f[path].dir
    THEN IF \/ Base(path) = "vendor"
            \/ Base(path) = ".git"
            \/ HasPrefix(Chars(Base(path)), <<".">>)
         THEN [fs |-> f, skip |-> skip \cup {path}, warned |-> {}]
         ELSE [fs |-> f, skip |-> skip, warned |-> {}]
    ELSE FileVisited(updateImportPathsInFile(f, path, oldModule, newModule, io),
                     path, skip)

\* The walk function of updateImportPaths at path.
ImportVisit(f, path, skip, oldModule, newModule, io) ==
    LET info == f[path]
        baseName == Base(path)
    IN  IF info.dir
        THEN IF \/ baseName = "vendor"
                \/ baseName = ".git"
                \/ HasPrefix(Chars(baseName), <<".">>)
             THEN [fs |-> f, skip |-> skip \cup {path}, warned |-> {}]
             ELSE [fs |-> f, skip |-> skip, warned |-> {}]
        ELSE IF ~HasSuffix(PathChars(path), DotGo)
        THEN [fs |-> f, skip |-> skip, warned |-> {}]
        ELSE IF baseName = "go.mod" THEN [fs |-> f, skip |-> skip, warned |-> {}]
        ELSE FileVisited(updateImportPathsInFile(f, path, oldModule, newModule, io),
                         path, skip)

RECURSIVE ImportWalk(_, _, _, _, _, _, _, _)

\* The walk after the visit of list[i] returned v.
ImportWalkOn(v, list, i, warned, oldModule, newModule, io) ==
    ImportWalk(v.fs, list, i + 1, v.skip, warned \cup v.warned, oldModule,
               newModule, io)

\* Mutant of ImportWalk: the walk ends at the first file that is warned
\* about.
ImportWalkStopsAtWarning(f, list, i, skip, warned, oldModule, newModule, io) ==
    IF i > Len(list) \/ warned # {}
    THEN [fs |-> f, err |-> "nil", warned |-> warned]
    ELSE ImportWalkOn(IF \E s \in skip : IsUnder(list[i], s)
                      THEN [fs |-> f, skip |-> skip, warned |-> {}]
                      ELSE ImportVisit(f, list[i], skip, oldModule, newModule, io),
                      list, i, warned, oldModule, newModule, io)

\* filepath.Walk over list[i] and on, after the warnings warned; the walk
\* function returns no error.
ImportWalk(f, list, i, skip, warned, oldModule, newModule, io) ==
    IF i > Len(list) THEN [fs |-> f, err |-> "nil", warned |-> warned]
    ELSE ImportWalkOn(IF \E s \in skip : IsUnder(list[i], s)
                      THEN [fs |-> f, skip |-> skip, warned |-> {}]
                      ELSE ImportVisit(f, list[i], skip, oldModule, newModule, io),
                      list, i, warned, oldModule, newModule, io)

\* Mutant of updateImportPaths: the two identities are not checked.
updateImportPathsUnchecked(f, projectPath, oldModule, newModule, io) ==
    IF ~Exists(f, projectPath)
    THEN [fs |-> f, err |-> "error walking project directory", warned |-> {}]
    ELSE ImportWalk(f, WalkOrder(f, projectPath), 1, {}, {}, oldModule, newModule, io)

\* warned: the files the warnings printed by the walk name.
updateImportPaths(f, projectPath, oldModule, newModule, io) ==
    IF oldModule = newModule
    THEN [fs |-> f, err |-> "oldModule and newModule are the same", warned |-> {}]
    ELSE IF oldModule = << >> \/ newModule = << >>
    THEN [fs |-> f, err |-> "oldModule and newModule must not be empty",
          warned |-> {}]
    ELSE IF ~Exists(f, projectPath)
    THEN [fs |-> f, err |-> "error walking project directory", warned |-> {}]
    ELSE ImportWalk(f, WalkOrder(f, projectPath), 1, {}, {}, oldModule, newModule, io)

customizeProject(w, cfg, projectPath, io) ==
    IF ~IsAbs(projectPath) THEN [w |-> w, ret |-> "BUG: projectPath is not absolute"]
    ELSE
      LET goModPath == Join(projectPath, <<"go.mod">>)
          e == extractOriginalModulePath(w.fs, goModPath)
      IN  IF e.err # "nil"
          THEN [w |-> w, ret |-> "failed to extract original module path"]
          ELSE
            LET \* a failure of updateGoModule is only warned about
                u == updateGoModule(w.fs, goModPath, cfg.ModulePath, io)
            IN  IF e.module # cfg.ModulePath
                THEN
                  LET p == updateImportPaths(u.fs, projectPath, e.module,
                                             cfg.ModulePath, io)
                  IN  IF p.err # "nil"
                      THEN [w |-> [w EXCEPT !.fs = p.fs],
                            ret |-> "failed to update import paths"]
                      ELSE [w |-> [w EXCEPT !.fs = p.fs], ret |-> "nil"]
                ELSE [w |-> [w EXCEPT !.fs = u.fs], ret |-> "nil"]

\* Generate after the copy returned c: the customization.
GenerateCustomize(e, c, cfg, projectPath, io) ==
    IF c.ret # "nil"
    THEN [w |-> c.w, ret |-> "failed to copy template", fetches |-> e.fetches,
          copies |-> 1, customizes |-> 0]
    ELSE
      LET z == customizeProject(c.w, cfg, projectPath, io)
      IN  [w |-> z.w,
           ret |-> IF z.ret # "nil" THEN "failed to customize project" ELSE "nil",
           fetches |-> e.fetches, copies |-> 1, customizes |-> 1]

\* Generate after EnsureTemplateCached returned e: the copy.  lag: the clock
\* moved while the template was fetched.
GenerateCopy(e, m, k, cfg, projectPath, io, lag) ==
    IF e.ret # "nil"
    THEN [w |-> e.w, ret |-> "failed to ensure template is cached",
          fetches |-> e.fetches, copies |-> 0, customizes |-> 0]
    ELSE GenerateCustomize(
             e,
             CopyTemplateToDestination(
                 IF lag THEN [e.w EXCEPT !.now = Now(e.w, TRUE)] ELSE e.w,
                 m, k, projectPath, io),
             cfg, projectPath, io)

\* Mutant of Generate: the project path is not looked up before the fetch.
GenerateWithoutStat(w, m, k, cfg, io, lag) ==
    LET v == Validate(cfg)
    IN  IF v.err # "nil"
        THEN [w |-> w, ret |-> "config validation failed", fetches |-> 0, copies |-> 0,
              customizes |-> 0]
        ELSE GenerateCopy(EnsureTemplateCached(w, m, k, io), m, k, v.cfg,
                          GetProjectPath(v.cfg, io), io, lag)

\* Generate of the generator of architecture k.  fetches, copies and
\* customizes count the calls of UpdateTemplate, of
\* CopyTemplateToDestination and of customizeProject.
Generate(w, m, k, cfg, io, lag) ==
    LET v == Validate(cfg)
    IN  IF v.err # "nil"
        THEN [w |-> w, ret |-> "config validation failed", fetches |-> 0, copies |-> 0,
              customizes |-> 0]
        ELSE IF Exists(w.fs, GetProjectPath(v.cfg, io))
        THEN [w |-> w, ret |-> "directory already exists", fetches |-> 0, copies |-> 0,
              customizes |-> 0]
        ELSE GenerateCopy(EnsureTemplateCached(w, m, k, io), m, k, v.cfg,
                          GetProjectPath(v.cfg, io), io, lag)

----------------------------------------------------------------------------
(* State machine *)

World == [now |-> now, doc |-> doc, mem |-> mem, fs |-> fs]

Commit(w) ==
    /\ now' = w.now
    /\ doc' = w.doc
    /\ mem' = w.mem
    /\ fs' = w.fs

\* The outcomes of the operating system calls of one handler: the call that
\* fails, the directory whose removal fails in ClearCache, whether the clock
\* moves between two reads, whether .git can be removed; and the umask of
\* the process.
IO(fault, failAt, skew, strip) ==
    [fault |-> fault, failAt |-> failAt, skew |-> skew, strip |-> strip,
     umask |-> Umask002, token |-> << >>]

\* The same outcomes with PICK_YOUR_GO_GITHUB_TOKEN set to token.
WithToken(io, token) == [io EXCEPT !.token = token]

Under(io, umask) == [io EXCEPT !.umask = umask]

Init ==
    /\ now = 0
    /\ doc = MissingDoc
    /\ mem = [m \in Managers |-> EmptyMap]
    /\ fs = [p \in Prefixes(cacheDir) \cup Prefixes(Cwd) |-> DirNode(Perm755)]

\* Time passes between two calls.
Tick ==
    /\ \E t \in Instants : t > now /\ now' = t
    /\ UNCHANGED <<doc, mem, fs>>

DoIsCached ==
    \E k \in Keys :
        LET r == IsCached(World, "tm", k)
        IN  Commit(r.w)

\* The outcomes of a fetch: the call that fails and, after a clone that
\* succeeded, whether .git can be removed and whether the clock moves.
FetchIOs ==
    {IO(f, "-", FALSE, TRUE) : f \in {"rm", "mkdir", "clone", "cloneleft"}}
    \cup {WithToken(IO("none", "-", FALSE, TRUE), <<"k">>)}
    \cup {IO(f, "-", skew, strip) :
            f \in {"none", "open", "trunc"}, skew \in BOOLEAN, strip \in BOOLEAN}

\* An architecture type without a template reaches no operating system call.
FetchInputs == (Keys \X FetchIOs) \cup {<<"custom", IO("none", "-", FALSE, TRUE)>>}

DoEnsureTemplateCached ==
    \E in \in FetchInputs :
        LET r == EnsureTemplateCached(World, "tm", in[1], in[2])
        IN  Commit(r.w)

DoUpdateTemplate ==
    \E in \in FetchInputs :
        LET r == UpdateTemplate(World, "tm", in[1], in[2])
        IN  Commit(r.w)

\* cacheMgr := cache.NewManager(); cacheMgr.UpdateCacheTime(k), as in
\* UpdateCommand.Run: the manager is new before the call and dropped after it.
DoUpdateCacheTime ==
    \E k \in Keys, fault \in {"none", "open", "trunc"}, skew \in BOOLEAN :
        LET r == UpdateCacheTime(World, "cm", k, IO(fault, "-", skew, TRUE))
        IN  Commit([r.w EXCEPT !.mem["cm"] = EmptyMap])

DoClearTemplateCache ==
    \E k \in Keys, fault \in {"none", "rm", "open", "trunc"} :
        LET r == ClearTemplateCache(World, "tm", k, IO(fault, "-", FALSE, TRUE))
        IN  Commit(r.w)

\* The outcomes of ClearCache: the call that fails, or the directory whose
\* removal fails.
ClearIOs ==
    {IO(f, "-", FALSE, TRUE) : f \in {"none", "readdir", "open", "trunc"}}
    \cup {IO("none", k, FALSE, TRUE) : k \in Keys}

DoClearAllCache ==
    \E io \in ClearIOs :
        LET r == ClearAllCache(World, "tm", io)
        IN  Commit(r.w)

Next ==
    \/ Tick
    \/ DoIsCached
    \/ DoEnsureTemplateCached
    \/ DoUpdateTemplate
    \/ DoUpdateCacheTime
    \/ DoClearTemplateCache
    \/ DoClearAllCache

Spec == Init /\ [][Next]_vars

----------------------------------------------------------------------------
(* The init command: every run builds its generator, and with it its       *)
(* template manager and cache manager, anew.  SpecProject runs the layered *)
(* generator, and CopyTemplateToDestination on its own.                    *)

ProjectNames == {"", "app"}

ModulePaths == {<< >>, <<"n">>, TemplateModule("layered")}

OutputDirs == {<< >>, <<"out">>}

Configs ==
    {Config(name, module, arch, out) :
        name \in ProjectNames, module \in ModulePaths, arch \in {"", "layered"},
        out \in OutputDirs}

\* The failures of the copy of one file: the source cannot be read, the
\* destination cannot be opened, or the write fails after the file was
\* created.
CopyFaults ==
    {IO(fault, name, FALSE, TRUE) :
        fault \in {"read", "write", "short"}, name \in {"main.go", "go.mod"}}

\* The outcomes of one run of Generate: no failure (with .git removed or
\* left in the clone), a clone that fails, a file of the copy that cannot be
\* written, a working directory that cannot be read; under either umask;
\* and a go.mod that cannot be written again after the copy.
GenerateIOs ==
    {Under(io, umask) :
        io \in {IO("none", "-", FALSE, TRUE), IO("none", "-", FALSE, FALSE),
                IO("clone", "-", FALSE, TRUE), IO("write", "main.go", FALSE, TRUE),
                IO("getwd", "-", FALSE, TRUE)},
        umask \in Umasks}
    \cup {IO("gomod", "go.mod", FALSE, TRUE)}

DoGenerate ==
    \E cfg \in Configs, io \in GenerateIOs, lag \in BOOLEAN :
        LET r == Generate(World, "tm", "layered", cfg, io, lag)
        IN  Commit([r.w EXCEPT !.mem["tm"] = EmptyMap])

\* The destinations of a direct copy: two absolute paths and a relative one.
CopyDests == {Join(Cwd, <<"app">>), Join(Cwd, <<"out", "app">>), <<"app">>}

CopyIOs ==
    {Under(io, umask) :
        io \in {IO("none", "-", FALSE, TRUE), IO("write", "main.go", FALSE, TRUE),
                IO("write", "go.mod", FALSE, TRUE)},
        umask \in Umasks}

DoCopyTemplateToDestination ==
    \E destPath \in CopyDests, io \in CopyIOs :
        LET r == CopyTemplateToDestination(World, "tm", "layered", destPath, io)
        IN  Commit([r.w EXCEPT !.mem["tm"] = EmptyMap])

NextProject ==
    \/ Tick
    \/ DoGenerate
    \/ DoCopyTemplateToDestination

SpecProject == Init /\ [][NextProject]_vars

----------------------------------------------------------------------------
(* Claims about the cache and the template manager, checked under Spec *)

NoFault == IO("none", "-", FALSE, TRUE)

HasEntry(d, k) == d.kind = "ok" /\ k \in DOMAIN d.templates

\* The persisted document holds an entry for k that is younger than the TTL.
PersistedFresh(k) == HasEntry(doc, k) /\ now - doc.templates[k].cachedAt < CacheTTL

\* C1: IsCached(key) is true if and only if the persisted metadata holds an
\* entry for key and now - cachedAt < 24h.
C1_IsCachedIffPersistedFresh ==
    \A k \in Keys : IsCached(World, "tm", k).ret <=> PersistedFresh(k)

\* C2: EnsureTemplateCached is a no-op when IsCached(key) is true (nil, no
\* fetch, storage and document unchanged); otherwise it runs exactly one
\* UpdateTemplate and returns its result.
C2_EnsureFetchesOnlyWhenNotCached ==
    \A in \in FetchInputs :
        LET c == IsCached(World, "tm", in[1])
            r == EnsureTemplateCached(World, "tm", in[1], in[2])
            u == UpdateTemplate(c.w, "tm", in[1], in[2])
        IN  /\ c.ret =>
                /\ r.ret = "nil"
                /\ r.fetches = 0 /\ r.clones = 0 /\ r.removes = 0
                /\ r.w.fs = fs
                /\ r.w.doc = doc
            /\ ~c.ret =>
                /\ r.fetches = 1
                /\ r.ret = u.ret
                /\ r.w = u.w
                /\ r.clones = u.clones

\* C2 witness: one key is cached with its directory in place (the no-op
\* case) while another key is not cached (the fetch case).
C2_Witness ==
    \E k, j \in Keys :
        /\ IsCached(World, "tm", k).ret
        /\ Exists(fs, GetTemplateCachePath(k))
        /\ ~IsCached(World, "tm", j).ret
        /\ EnsureTemplateCached(World, "tm", j, NoFault).ret = "nil"

CloneErrors == {"failed to clone repository", "failed to create cache directory"}

\* The two branches of UpdateTemplate for a key that has a template.
FetchBranches(k, io, r) ==
    LET was == Exists(fs, GetTemplateCachePath(k))
    IN  /\ was =>
            /\ r.pulls = 1
            /\ r.ret # pullTemplate(GetTemplateCachePath(k))
            /\ r.removes = 1
            /\ io.fault # "rm" => r.clones = 1
            /\ io.fault = "rm" => r.clones = 0 /\ r.ret = "failed to remove old cache"
        /\ ~was =>
            /\ r.pulls = 0
            /\ r.removes = 0
            /\ r.clones = 1

\* C3 as stated: two branches, and only a failure of the delete or of the
\* full clone is returned as an error.
C3_OnlyDeleteOrCloneFailureReturned ==
    \A in \in FetchInputs :
        LET r == UpdateTemplate(World, "tm", in[1], in[2])
        IN  /\ in[1] \in Keys => FetchBranches(in[1], in[2], r)
            /\ r.ret # "nil" => r.ret \in CloneErrors \cup {"failed to remove old cache"}

\* C3 amended: the same two branches for every key that has a template; an
\* error is returned only when the template lookup, the delete, the full
\* clone or the final UpdateCacheTime fails, and each such failure is returned.
C3_FetchTwoBranches ==
    \A in \in FetchInputs :
        LET r == UpdateTemplate(World, "tm", in[1], in[2])
        IN  /\ in[1] \in Keys => FetchBranches(in[1], in[2], r)
            /\ in[1] \notin Keys => r.clones = 0 /\ r.removes = 0 /\ r.w = World
            /\ r.ret # "nil" =>
                r.ret \in CloneErrors \cup {"failed to remove old cache",
                    "failed to get template", "failed to load metadata",
                    "failed to save metadata"}
            /\ in[2].fault \in {"mkdir", "clone", "cloneleft"} /\ in[1] \in Keys
                => r.ret \in CloneErrors
            /\ r.ret = "failed to get template" <=> in[1] \notin Keys

\* C3 witness: the storage directory of a key exists, and a fetch from this
\* state deletes it and clones once.
C3_Witness ==
    \E k \in Keys :
        /\ Exists(fs, GetTemplateCachePath(k))
        /\ UpdateTemplate(World, "tm", k, NoFault).removes = 1
        /\ UpdateTemplate(World, "tm", k, NoFault).clones = 1
        /\ UpdateTemplate(World, "tm", k, NoFault).ret = "nil"

HasGit(f, k) == Exists(f, Join(GetTemplateCachePath(k), <<".git">>))

C5_IsCachedFalseWithoutDocument ==
    \A m \in Managers, k \in Keys :
        doc.kind \in {"missing", "corrupt"} =>
            /\ IsCached(World, m, k).ret = FALSE
            /\ IsCached(World, m, k).w.doc = doc

\* C5 witness: the document is unparsable while the manager still holds a
\* young entry in memory.
C5_Witness ==
    \E k \in Keys :
        /\ doc.kind = "corrupt"
        /\ k \in DOMAIN mem["tm"]
        /\ now - mem["tm"][k].cachedAt < CacheTTL

\* C6: with an unparsable document on disk, UpdateCacheTime succeeds and
\* writes a document that holds the key, EnsureTemplateCached succeeds after
\* a successful clone, and ClearTemplateCache succeeds.
C6_CorruptDocumentDegradesToEmpty ==
    doc.kind = "corrupt" =>
        \A m \in Managers, k \in Keys :
            /\ UpdateCacheTime(World, m, k, NoFault).ret = "nil"
            /\ HasEntry(UpdateCacheTime(World, m, k, NoFault).w.doc, k)
            /\ EnsureTemplateCached(World, m, k, NoFault).ret = "nil"
            /\ ClearTemplateCache(World, m, k, NoFault).ret = "nil"

\* C7: after UpdateCacheTime(key) succeeds the entry has cachedAt equal to
\* lastChecked (the time of the call) and path join(cacheDir, key), the
\* entries of the other keys are rewritten unchanged, and every persisted
\* entry has path join(cacheDir, its key).
C7_TouchWritesOneTimestampAndKeepsOthers ==
    /\ \A k \in Keys : HasEntry(doc, k) => doc.templates[k].path = Join(cacheDir, <<k>>)
    /\ \A m \in Managers, k \in Keys, skew \in BOOLEAN :
        LET r == UpdateCacheTime(World, m, k, IO("none", "-", skew, TRUE))
        IN  r.ret = "nil" =>
                /\ HasEntry(r.w.doc, k)
                /\ r.w.doc.templates[k].cachedAt = r.w.doc.templates[k].lastChecked
                /\ r.w.doc.templates[k].cachedAt = now
                /\ r.w.doc.templates[k].path = Join(cacheDir, <<k>>)
                /\ \A j \in Keys \ {k} :
                        /\ HasEntry(r.w.doc, j) <=> HasEntry(doc, j)
                        /\ HasEntry(doc, j) => r.w.doc.templates[j] = doc.templates[j]

\* C8: after ClearTemplateCache(key) returns nil neither an entry nor a
\* storage directory exists for key and IsCached(key) is false, the other
\* keys are unchanged, and it returns nil when the directory or the entry is
\* already missing; after ClearCache returns nil no key has an entry or a
\* storage directory.
C8_InvalidateRemovesOnlyItsKey ==
    /\ \A k \in Keys :
        LET r == ClearTemplateCache(World, "tm", k, NoFault)
        IN  /\ r.ret = "nil" =>
                /\ ~HasEntry(r.w.doc, k)
                /\ ~Exists(r.w.fs, GetTemplateCachePath(k))
                /\ ~IsCached(r.w, "tm", k).ret
                /\ \A j \in Keys \ {k} :
                        /\ HasEntry(r.w.doc, j) <=> HasEntry(doc, j)
                        /\ HasEntry(doc, j) => r.w.doc.templates[j] = doc.templates[j]
                        /\ Tree(r.w.fs, GetTemplateCachePath(j)) = Tree(fs, GetTemplateCachePath(j))
            /\ doc.kind # "corrupt"
                    /\ (~Exists(fs, GetTemplateCachePath(k)) \/ ~HasEntry(doc, k))
                => r.ret = "nil"
    /\ LET a == ClearAllCache(World, "tm", NoFault)
       IN  a.ret = "nil" =>
            \A k \in Keys : ~HasEntry(a.w.doc, k) /\ ~Exists(a.w.fs, GetTemplateCachePath(k))

----------------------------------------------------------------------------
(* Claims about the copy and the generators, checked under SpecProject *)

OutsideGit(tree) == {rel \in DOMAIN tree : \A i \in 1 .. Len(rel) : rel[i] # ".git"}

\* C10: after CopyTemplateToDestination returns nil for a destination that
\* did not exist, the relative paths of the destination are those of the
\* cached tree outside .git, directories are directories, files have the
\* contents and the permission bits of the cached files, and the cached tree
\* is unchanged.
C10_CopyPreservesPathsContentsAndModes ==
    \A destPath \in CopyDests, umask \in Umasks :
        LET cachePath == GetTemplateCachePath("layered")
            r == CopyTemplateToDestination(World, "tm", "layered", destPath,
                                           Under(NoFault, umask))
            src == Tree(fs, cachePath)
            dst == Tree(r.w.fs, destPath)
        IN  (~Exists(fs, destPath) /\ r.ret = "nil") =>
                /\ DOMAIN dst = OutsideGit(src)
                /\ \A rel \in OutsideGit(src) :
                      /\ dst[rel].dir = src[rel].dir
                      /\ dst[rel].data = src[rel].data
                      /\ ~src[rel].dir => dst[rel].mode = src[rel].mode
                /\ Tree(r.w.fs, cachePath) = src

\* The position of path in the order of the walk, or 0.
WalkIndex(list, path) ==
    IF \E i \in 1 .. Len(list) : list[i] = path
    THEN CHOOSE i \in 1 .. Len(list) : list[i] = path
    ELSE 0

\* The file of the cached tree, outside .git, whose copy fails under io.
FailingSource(f, cachePath, io) ==
    {p \in DOMAIN f :
        /\ IsUnder(p, cachePath) /\ p # cachePath
        /\ Rel(cachePath, p) \in OutsideGit(Tree(f, cachePath))
        /\ ~f[p].dir
        /\ Base(p) = io.failAt}

\* C11 (the copy): when the copy of one file fails, CopyTemplateToDestination
\* returns the error of that file; what the walk visited before the file is
\* in the destination as a copy without failure leaves it, and what the walk
\* would visit after it is neither created nor changed; the cached tree is
\* unchanged.
C11_CopyStopsAtFailingFile ==
    \A destPath \in CopyDests, fio \in CopyFaults, umask \in Umasks :
        LET io == Under(fio, umask)
            cachePath == GetTemplateCachePath("layered")
            list == WalkOrder(fs, cachePath)
            failing == FailingSource(fs, cachePath, io)
            r == CopyTemplateToDestination(World, "tm", "layered", destPath, io)
            ok == CopyTemplateToDestination(World, "tm", "layered", destPath,
                                            Under(NoFault, umask))
        IN  (IsAbs(destPath) /\ ok.ret = "nil" /\ failing # {}) =>
                /\ r.ret = IF io.fault = "read" THEN "failed to read source file"
                           ELSE "failed to write destination file"
                /\ \A bad \in failing :
                    \A rel \in OutsideGit(Tree(fs, cachePath)) :
                        LET src == Join(cachePath, rel)
                            dst == Join(destPath, rel)
                        IN  /\ WalkIndex(list, src) < WalkIndex(list, bad) =>
                                /\ Exists(r.w.fs, dst)
                                /\ r.w.fs[dst] = ok.w.fs[dst]
                            /\ WalkIndex(list, src) > WalkIndex(list, bad) =>
                                /\ Exists(r.w.fs, dst) <=> Exists(fs, dst)
                                /\ Exists(fs, dst) => r.w.fs[dst] = fs[dst]
                /\ Tree(r.w.fs, cachePath) = Tree(fs, cachePath)

\* C11 (the generator): when the copy fails, Generate returns "failed to
\* copy template" with the file system as the copy left it, and does not
\* call customizeProject.
C11_GenerateStopsAfterFailedCopy ==
    \A cfg \in Configs, fio \in CopyFaults, umask \in Umasks, lag \in BOOLEAN :
        LET io == Under(fio, umask)
            v == Validate(cfg)
            projectPath == GetProjectPath(v.cfg, io)
            e == EnsureTemplateCached(World, "tm", "layered", io)
            c == CopyTemplateToDestination(
                     IF lag THEN [e.w EXCEPT !.now = Now(e.w, TRUE)] ELSE e.w,
                     "tm", "layered", projectPath, io)
            r == Generate(World, "tm", "layered", cfg, io, lag)
        IN  (v.err = "nil" /\ ~Exists(fs, projectPath) /\ e.ret = "nil"
                /\ c.ret # "nil") =>
                /\ r.ret = "failed to copy template"
                /\ r.customizes = 0
                /\ r.w.fs = c.w.fs

\* C11: both parts.
C11_FailedCopyStopsWalkAndGenerate ==
    C11_CopyStopsAtFailingFile /\ C11_GenerateStopsAfterFailedCopy

\* C11 witness: a copy that failed at go.mod left cmd/main.go, copied before
\* it, in the destination, and the template is still cached.
C11_Witness ==
    /\ Exists(fs, Join(Cwd, <<"app", "cmd", "main.go">>))
    /\ ~Exists(fs, Join(Cwd, <<"app", "go.mod">>))
    /\ IsCached(World, "tm", "layered").ret

\* C12: CopyTemplateToDestination with a relative destination returns an
\* error that names the path, and has read no metadata and created nothing;
\* and GetProjectPath returns an absolute path for every configuration, so
\* that Generate never calls the copy with a relative destination.
C12_RelativeDestinationRejectedAndNeverPassed ==
    /\ \A destPath \in CopyDests, io \in CopyIOs :
            LET r == CopyTemplateToDestination(World, "tm", "layered", destPath, io)
            IN  ~IsAbs(destPath) =>
                    /\ r.ret = "BUG: destPath is not absolute"
                    /\ r.names = destPath
                    /\ r.w = World
    /\ \A cfg \in Configs, io \in GenerateIOs, lag \in BOOLEAN :
            LET v == Validate(cfg)
                r == Generate(World, "tm", "layered", cfg, io, lag)
            IN  /\ IsAbs(GetProjectPath(v.cfg, io))
                /\ r.copies = 1 => r.ret # "failed to copy template"
                                    \/ IsCached(r.w, "tm", "layered").ret = FALSE
                                    \/ io.fault \in {"read", "write", "short"}

----------------------------------------------------------------------------
(* The identity rewriter on a copied project: go.mod and main.go of the
   project directory hold one of a few texts, and updateGoModule,
   updateImportPaths and customizeProject are applied to it. *)

ProjectDir == Join(Cwd, <<"app">>)

GoModPath == Join(ProjectDir, <<"go.mod">>)

MainGoPath == Join(ProjectDir, <<"main.go">>)

\* The length a path in a file of the project may grow to.
MaxPath == 7

\* a manifest without a module line: go 1.
ManifestNoModule ==
    <<"g", "o", " ", "1", "\n">>

\* two module lines: module t/l, module t/m, go 1.
ManifestTwoModules ==
    <<"m", "o", "d", "u", "l", "e", " ", "t", "/", "l", "\n", "m", "o", "d",
      "u", "l", "e", " ", "t", "/", "m", "\n", "g", "o", " ", "1", "\n">>

\* a comment after the module path: module t/l // c.
ManifestComment ==
    <<"m", "o", "d", "u", "l", "e", " ", "t", "/", "l", " ", "/", "/", " ",
      "c", "\n", "g", "o", " ", "1", "\n">>

\* blanks around the module path, a blank line, an indented module line
\* and no newline at the end.
ManifestSpaces ==
    <<"\n", " ", "m", "o", "d", "u", "l", "e", " ", "t", "/", "m", "\n", "m",
      "o", "d", "u", "l", "e", " ", " ", "t", "/", "l", " ", "\n", "g", "o",
      " ", "1">>

\* an import block whose opener and closer carry blanks, with the template's
\* module, a longer name and a package of it; then a string outside imports.
SourceBlock ==
    <<"p", "\n", " ", "i", "m", "p", "o", "r", "t", " ", "(", "\n", "\t", "\"",
      "t", "/", "l", "\"", "\n", "\t", "\"", "t", "/", "l", "c", "\"", "\n",
      "\t", "a", " ", "\"", "t", "/", "l", "/", "x", "\"", "\n", ")", " ",
      "\n", "v", " ", "\"", "t", "/", "l", "\"", "\n">>

\* two imports on one line, the first with an alias.
SourceTwoOnLine ==
    <<"i", "m", "p", "o", "r", "t", " ", "a", " ", "\"", "t", "/", "l", "\"",
      ";", " ", "i", "m", "p", "o", "r", "t", " ", "\"", "t", "/", "l", "/",
      "x", "\"", "\n">>

\* an import line whose quote is not closed, then a plain line.
SourceOpenQuote ==
    <<"i", "m", "p", "o", "r", "t", " ", "\"", "t", "/", "l", "\n", "v", " ",
      "\"", "t", "/", "l", "\"", "\n">>

\* a closer outside a block, an opener followed by a comment, and a block
\* that is not closed.
SourceStrayCloser ==
    <<")", "\n", "i", "m", "p", "o", "r", "t", " ", "(", " ", "/", "/", " ",
      "c", "\n", "\"", "t", "/", "l", "\"", "\n", "i", "m", "p", "o", "r", "t",
      " ", "(", "\n", "\"", "t", "/", "l", "\"">>

\* an import block whose opener is followed by a comment, with a package of
\* the template's module and a standard package.
SourceOpenerComment ==
    <<"i", "m", "p", "o", "r", "t", " ", "(", " ", "/", "/", " ", "c", "\n", "\t",
      "\"", "t", "/", "l", "/", "x", "\"", "\n", "\t", "\"", "f", "m", "t", "\"",
      "\n", ")", "\n">>

\* an import of the empty path, and an import followed by a third quote.
SourceEmptyQuoted ==
    <<"i", "m", "p", "o", "r", "t", " ", "\"", "\"", "\n", "i", "m", "p", "o", "r",
      "t", " ", "\"", "t", "/", "l", "\"", " ", "\"", "\n">>

\* The contents of go.mod; Absent: there is no go.mod.
Absent == <<"absent">>

Manifests ==
    {Absent, GoModText("layered"), ManifestNoModule, ManifestTwoModules,
     ManifestComment, ManifestSpaces}

Sources ==
    {MainGoText("layered"), SourceBlock, SourceTwoOnLine, SourceOpenQuote,
     SourceStrayCloser, SourceOpenerComment, SourceEmptyQuoted}

\* Module paths: none, another one, the template's, and one the template's
\* is a prefix of.
Identities ==
    {<< >>, <<"n">>, TemplateModule("layered"), TemplateModule("layered") \o <<"/", "v">>}

\* The failures of the rewrite: go.mod cannot be written, main.go cannot be
\* read or written.
RewriteIOs ==
    {IO("none", "-", FALSE, TRUE), IO("gomod", "go.mod", FALSE, TRUE),
     IO("goread", "main.go", FALSE, TRUE), IO("gowrite", "main.go", FALSE, TRUE),
     IO("goread", "util.go", FALSE, TRUE), IO("gowrite", "util.go", FALSE, TRUE)}

\* The files of the project beside go.mod and main.go, each with an import
\* of a package of the template's module: a source file in a directory, a
\* file that is no source file, and source files in a hidden directory and
\* in vendor.
OtherFiles ==
    {<<"cmd", "util.go">>, <<"config">>, <<".git", "main.go">>, <<"vendor", "main.go">>}

ProjectTree(manifest, source) ==
    [p \in Prefixes(cacheDir) \cup Prefixes(ProjectDir)
            \cup {Join(ProjectDir, <<d>>) : d \in {"cmd", ".git", "vendor"}} |->
        DirNode(Perm755)]
    @@ [p \in {Join(ProjectDir, q) : q \in OtherFiles} |->
           FileNode(MainGoText("layered"), Perm644)]
    @@ (IF manifest = Absent THEN << >>
        ELSE GoModPath :> FileNode(manifest, Perm644))
    @@ (MainGoPath :> FileNode(source, Perm644))

InitRewrite ==
    /\ now = 0
    /\ doc = MissingDoc
    /\ mem = [m \in Managers |-> EmptyMap]
    /\ \E manifest \in Manifests, source \in Sources :
            fs = ProjectTree(manifest, source)

\* No file written on the way from fs to f has more than MaxPath characters
\* in a row without a quote or a blank between them.
Bounded(f) ==
    \A p \in {q \in DOMAIN f : f[q] # fs[q]} :
        \A i \in 1 .. Len(f[p].data) - MaxPath :
            {k \in i .. i + MaxPath : f[p].data[k] = "\"" \/ IsSpace(f[p].data[k])} # {}

\* The failures the steps are taken with.
StepIOs ==
    {IO("none", "-", FALSE, TRUE), IO("gomod", "go.mod", FALSE, TRUE),
     IO("goread", "main.go", FALSE, TRUE), IO("gowrite", "util.go", FALSE, TRUE)}

DoUpdateGoModule ==
    \E modulePath \in Identities, io \in StepIOs :
        LET r == updateGoModule(fs, GoModPath, modulePath, io)
        IN  /\ Bounded(r.fs)
            /\ fs' = r.fs
            /\ UNCHANGED <<now, doc, mem>>

DoUpdateImportPaths ==
    \E oldModule \in Identities, newModule \in Identities, io \in StepIOs :
        LET r == updateImportPaths(fs, ProjectDir, oldModule, newModule, io)
        IN  /\ Bounded(r.fs)
            /\ fs' = r.fs
            /\ UNCHANGED <<now, doc, mem>>

DoCustomizeProject ==
    \E modulePath \in Identities \ {<< >>}, io \in StepIOs :
        LET r == customizeProject(World,
                                  Config("app", modulePath, "layered", << >>),
                                  ProjectDir, io)
        IN  /\ Bounded(r.w.fs)
            /\ Commit(r.w)

NextRewrite ==
    \/ DoUpdateGoModule
    \/ DoUpdateImportPaths
    \/ DoCustomizeProject

SpecRewrite == InitRewrite /\ [][NextRewrite]_vars

----------------------------------------------------------------------------
(* Claims on the identity rewriter *)

\* The first blank-delimited token of s.
FirstField(s) ==
    LET t == TrimSpace(s)
        blanks == {i \in 1 .. Len(t) : IsSpace(t[i])}
    IN  IF blanks = {} THEN t
        ELSE SubSeq(t, 1, (CHOOSE i \in blanks : \A j \in blanks : i <= j) - 1)

\* The lines of the file at path p.
LinesOf(f, p) == splitLines(f[p].data)

\* The manifest at goModPath declares an identity: it is a file with a line
\* that begins with the keyword.
Declares(f, goModPath) ==
    /\ Exists(f, goModPath)
    /\ ~f[goModPath].dir
    /\ ModuleLine(LinesOf(f, goModPath)) # 0

\* The identity it declares: the token after the keyword on that line.
DeclaredIdentity(f, goModPath) ==
    LET lines == LinesOf(f, goModPath)
    IN  FirstField(TrimPrefix(lines[ModuleLine(lines)], KwModule))

\* C13: customizeProject hands the import rewrite the identity the manifest
\* declared before the manifest was rewritten: afterwards the manifest
\* declares the new identity and main.go is the old main.go with the
\* declared identity replaced by the new one; and when the extraction
\* fails, customizeProject returns that error and no file is modified.
C13_OldIdentityIsTheOneDeclaredBeforeRewrite ==
    \A modulePath \in Identities \ {<< >>}, io \in RewriteIOs :
        LET r == customizeProject(World, Config("app", modulePath, "layered", << >>),
                                  ProjectDir, io)
        IN  IF ~Declares(fs, GoModPath)
            THEN /\ r.ret = "failed to extract original module path"
                 /\ r.w = World
            ELSE /\ io.fault # "gomod" =>
                        /\ Declares(r.w.fs, GoModPath)
                        /\ DeclaredIdentity(r.w.fs, GoModPath) = modulePath
                 /\ io.fault = "none" /\ DeclaredIdentity(fs, GoModPath) # modulePath =>
                        r.w.fs[MainGoPath].data =
                            replaceImportPaths(fs[MainGoPath].data,
                                               DeclaredIdentity(fs, GoModPath),
                                               modulePath)

\* C14: extractOriginalModulePath returns the token after the keyword on
\* the first line that begins with "module ", and an error when the file
\* is missing or has no such line.
C14_ExtractReturnsTokenAfterKeyword ==
    LET e == extractOriginalModulePath(fs, GoModPath)
    IN  IF Declares(fs, GoModPath)
        THEN e.err = "nil" /\ e.module = DeclaredIdentity(fs, GoModPath)
        ELSE e.err # "nil"

\* The lines of the file at p that begin with the keyword.
ModuleLines(f, p) ==
    {i \in 1 .. Len(LinesOf(f, p)) : HasPrefix(LinesOf(f, p)[i], KwModule)}

\* C15: a successful updateGoModule leaves the manifest with the same
\* number of lines; the first line beginning with "module " reads
\* "module <newIdentity>" and every other line, later module lines
\* included, is the line it was.  A failed one leaves the file as it was.
C15_UpdateReplacesOnlyFirstModuleLine ==
    \A modulePath \in Identities, io \in RewriteIOs :
        LET r == updateGoModule(fs, GoModPath, modulePath, io)
            before == IF Exists(fs, GoModPath) THEN LinesOf(fs, GoModPath) ELSE << >>
            after == IF Exists(fs, GoModPath) THEN LinesOf(r.fs, GoModPath) ELSE << >>
        IN  IF r.err = "nil"
            THEN /\ Exists(fs, GoModPath)
                 /\ Len(after) = Len(before)
                 /\ \A i \in 1 .. Len(before) :
                        after[i] = IF i = ModuleLine(before)
                                   THEN KwModule \o modulePath
                                   ELSE before[i]
                 /\ \A p \in DOMAIN fs \ {GoModPath} : r.fs[p] = fs[p]
            ELSE r.fs = fs

\* go.mod has two module lines; the first was rewritten, the second is the
\* template's.
C15_Witness ==
    /\ Exists(fs, GoModPath)
    /\ Cardinality(ModuleLines(fs, GoModPath)) = 2
    /\ LinesOf(fs, GoModPath)[1] = KwModule \o <<"n">>
    /\ LinesOf(fs, GoModPath)[2] = KwModule \o TemplateModule("modular")

\* Identities with a blank before or after.
PaddedIdentities == {<<" ", "n">>, <<"n", " ">>, <<" ">>}

\* C16 as stated: for every manifest and every non-empty identity,
\* extractOriginalModulePath after a successful updateGoModule returns the
\* identity.
C16_RoundTripForEveryManifest ==
    \A modulePath \in Identities \ {<< >>}, io \in RewriteIOs :
        LET u == updateGoModule(fs, GoModPath, modulePath, io)
            e == extractOriginalModulePath(u.fs, GoModPath)
        IN  u.err = "nil" => e.err = "nil" /\ e.module = modulePath

\* C16 amended: for every manifest that has a line beginning with "module "
\* and every non-empty identity, extractOriginalModulePath after a
\* successful updateGoModule returns the identity without the blanks
\* around it, which is the identity when it has none; for a manifest
\* without such a line updateGoModule succeeds and the extraction fails.
C16_RoundTripForDeclaringManifest ==
    \A modulePath \in (Identities \ {<< >>}) \cup PaddedIdentities, io \in RewriteIOs :
        LET u == updateGoModule(fs, GoModPath, modulePath, io)
            e == extractOriginalModulePath(u.fs, GoModPath)
        IN  u.err = "nil" =>
                IF Declares(fs, GoModPath)
                THEN /\ e.err = "nil"
                     /\ e.module = TrimSpace(modulePath)
                     /\ modulePath \in Identities => e.module = modulePath
                ELSE e.err = "no module declaration found"

\* go.mod is the template's with its module line rewritten to "module n".
C16_Witness ==
    /\ Exists(fs, GoModPath)
    /\ fs[GoModPath].data = KwModule \o <<"n", "\n", "g", "o", " ", "1", "\n">>

\* The roots updateImportPaths is called with: the project directory and a
\* directory that does not exist.
RewriteRoots == {ProjectDir, Join(Cwd, <<"out">>)}

\* C17: updateImportPaths with equal identities, or with an empty one,
\* returns the error of its first two checks, whatever the root and
\* whatever the files under it would answer, and changes no file.
C17_EqualOrEmptyIdentitiesRejectedAtOnce ==
    \A oldModule \in Identities, newModule \in Identities, io \in RewriteIOs,
       projectPath \in RewriteRoots :
        LET r == updateImportPaths(fs, projectPath, oldModule, newModule, io)
        IN  /\ oldModule = newModule =>
                    r.err = "oldModule and newModule are the same" /\ r.fs = fs
            /\ oldModule # newModule /\ (oldModule = << >> \/ newModule = << >>) =>
                    r.err = "oldModule and newModule must not be empty" /\ r.fs = fs
            /\ r.err \in {"oldModule and newModule are the same",
                          "oldModule and newModule must not be empty"} =>
                    oldModule = newModule \/ oldModule = << >> \/ newModule = << >>

\* main.go imports a package of module n and go.mod declares the empty
\* identity: customizeProject calls updateImportPaths with an empty old
\* identity and fails on it.
C17_Witness ==
    /\ fs[MainGoPath].data = KwImport \o Quote \o <<"n", "/", "x">> \o Quote \o <<"\n">>
    /\ Exists(fs, GoModPath)
    /\ extractOriginalModulePath(fs, GoModPath) = [module |-> << >>, err |-> "nil"]
    /\ customizeProject(World, Config("app", <<"n">>, "layered", << >>), ProjectDir,
                        IO("none", "-", FALSE, TRUE)).ret
          = "failed to update import paths"

\* The parts of s between the occurrences of the character c.
RECURSIVE SplitAt(_, _)
SplitAt(s, c) ==
    IF Index(s, c) = -1 THEN <<s>>
    ELSE <<Slice(s, 0, Index(s, c))>> \o SplitAt(Slice(s, Index(s, c) + 1, Len(s)), c)

\* Part j of a line split at its quotes is a quoted value: it lies between
\* an opening quote and its closing quote.
IsQuoted(parts, j) == j % 2 = 0 /\ j < Len(parts)

\* The closed quoted values of a line.
QuotedValues(line) ==
    {SplitAt(line, Quote)[j] :
        j \in {k \in 1 .. Len(SplitAt(line, Quote)) : IsQuoted(SplitAt(line, Quote), k)}}

\* The parts put together again with c between them.
RECURSIVE Glue(_, _)
Glue(parts, c) ==
    IF Len(parts) = 1 THEN parts[1]
    ELSE parts[1] \o c \o Glue(Tail(parts), c)

\* The value q refers to the module: it is the module path or a path below
\* it.
RefersTo(q, module) == q = module \/ HasPrefix(q, module \o <<"/">>)

\* The quoted value q with the old module path in front replaced.
Rewritten(q, oldModule, newModule) ==
    IF RefersTo(q, oldModule)
    THEN newModule \o SubSeq(q, Len(oldModule) + 1, Len(q))
    ELSE q

\* Pairs of different, non-empty identities.
IdentityPairs ==
    {pair \in (Identities \ {<< >>}) \X (Identities \ {<< >>}) : pair[1] # pair[2]}

\* C18: on every line of main.go, replaceModulePathInLine changes a quoted
\* value if and only if it is oldModule or begins with oldModule and "/";
\* the value then is newModule followed by the rest of the old value.
C18_PrefixExactRewrite ==
    \A pair \in IdentityPairs :
        \A i \in 1 .. Len(LinesOf(fs, MainGoPath)) :
            LET line == LinesOf(fs, MainGoPath)[i]
                from == SplitAt(line, Quote)
                to == SplitAt(replaceModulePathInLine(line, pair[1], pair[2]), Quote)
            IN  /\ Len(to) = Len(from)
                /\ \A j \in 1 .. Len(from) :
                        IsQuoted(from, j) =>
                            /\ to[j] # from[j] <=> RefersTo(from[j], pair[1])
                            /\ to[j] = Rewritten(from[j], pair[1], pair[2])

\* The import block of main.go after the rewrite of t/l to n: "n", the
\* longer name "t/lc" as it was, and "n/x".
C18_Witness ==
    /\ Len(LinesOf(fs, MainGoPath)) >= 5
    /\ LinesOf(fs, MainGoPath)[3] = <<"\t">> \o Quote \o <<"n">> \o Quote
    /\ LinesOf(fs, MainGoPath)[4] = <<"\t">> \o Quote \o <<"t", "/", "l", "c">> \o Quote
    /\ LinesOf(fs, MainGoPath)[5] = <<"\t", "a", " ">> \o Quote \o <<"n", "/", "x">> \o Quote

\* C19: replaceModulePathInLine returns the line with every quoted value
\* that refers to oldModule rewritten once, also when newModule begins with
\* oldModule, and with the text outside the quotes, the quotes themselves
\* and a value whose quote is not closed as they were.
C19_EveryQuotedPathRewrittenOnce ==
    \A pair \in IdentityPairs :
        \A i \in 1 .. Len(LinesOf(fs, MainGoPath)) :
            LET line == LinesOf(fs, MainGoPath)[i]
                from == SplitAt(line, Quote)
            IN  replaceModulePathInLine(line, pair[1], pair[2]) =
                    Glue([j \in 1 .. Len(from) |->
                              IF IsQuoted(from, j)
                              THEN Rewritten(from[j], pair[1], pair[2])
                              ELSE from[j]],
                         Quote)

\* The line with two imports after the rewrite of t/l to t/l/v.
C19_Witness ==
    LinesOf(fs, MainGoPath)[1] =
        KwImport \o <<"a", " ">> \o Quote \o <<"t", "/", "l", "/", "v">> \o Quote
          \o <<";", " ">> \o KwImport \o Quote
          \o <<"t", "/", "l", "/", "v", "/", "x">> \o Quote

\* Line i opens an import block, or closes one.
IsOpener(lines, i) == TrimSpace(lines[i]) = ImportOpen

IsCloser(lines, i) == TrimSpace(lines[i]) = ImportClose

\* Line i lies after an opener and before the next closer.
InBlock(lines, i) ==
    \E j \in 1 .. i - 1 :
        /\ IsOpener(lines, j)
        /\ \A k \in j + 1 .. i : ~IsCloser(lines, k)

\* Line i is a rewrite candidate.
IsCandidate(lines, i) ==
    HasPrefix(TrimSpace(lines[i]), KwImport) \/ InBlock(lines, i)

\* C20: replaceImportPaths returns as many lines as it was given, in the
\* same order; a line that is no rewrite candidate, an opener and the
\* closer of a block are as they were, and a candidate is what
\* replaceModulePathInLine makes of it.
C20_OnlyCandidateLinesAreRewritten ==
    \A pair \in IdentityPairs :
        LET from == LinesOf(fs, MainGoPath)
            to == splitLines(replaceImportPaths(fs[MainGoPath].data, pair[1], pair[2]))
        IN  /\ Len(to) = Len(from)
            /\ \A i \in 1 .. Len(from) :
                    /\ to[i] # from[i] => IsCandidate(from, i)
                    /\ IsOpener(from, i) => to[i] = from[i]
                    /\ IsCloser(from, i) => to[i] = from[i]
                    /\ to[i] = IF IsCandidate(from, i) /\ ~IsOpener(from, i)
                              THEN replaceModulePathInLine(from[i], pair[1], pair[2])
                              ELSE from[i]

\* main.go after the rewrite of t/l to n: the import in the block is
\* rewritten, the string on the line after the block is not.
C20_Witness ==
    /\ Len(LinesOf(fs, MainGoPath)) >= 7
    /\ IsOpener(LinesOf(fs, MainGoPath), 2)
    /\ LinesOf(fs, MainGoPath)[3] = <<"\t">> \o Quote \o <<"n">> \o Quote
    /\ IsCloser(LinesOf(fs, MainGoPath), 6)
    /\ LinesOf(fs, MainGoPath)[7] = <<"v", " ">> \o Quote \o TemplateModule("layered") \o Quote

\* Go's reading of the lines: an import declaration with parentheses opens
\* on a line that begins with "import (", a comment after it or not, and
\* closes on the next line that begins with ")".
GoOpener(lines, i) == HasPrefix(TrimSpace(lines[i]), ImportOpen)

GoCloser(lines, i) == HasPrefix(TrimSpace(lines[i]), ImportClose)

\* Line i holds import specs: it is a single import declaration or lies
\* inside a declaration with parentheses.
GoImportLine(lines, i) ==
    \/ HasPrefix(TrimSpace(lines[i]), KwImport) /\ ~GoOpener(lines, i)
    \/ \E j \in 1 .. i - 1 :
          /\ GoOpener(lines, j)
          /\ \A k \in j + 1 .. i : ~GoCloser(lines, k)

\* C21: for different, non-empty identities, no import line of the output
\* of replaceImportPaths holds a quoted path that is the old identity or
\* begins with it and "/", and every other quoted path of an import line
\* is still on its line.
C21_NoImportOfOldIdentityRemains ==
    \A pair \in IdentityPairs :
        LET from == LinesOf(fs, MainGoPath)
            to == splitLines(replaceImportPaths(fs[MainGoPath].data, pair[1], pair[2]))
        IN  /\ Len(to) = Len(from)
            /\ \A i \in 1 .. Len(from) :
                    GoImportLine(from, i) =>
                        /\ \A q \in QuotedValues(to[i]) : ~RefersTo(q, pair[1])
                        /\ \A q \in QuotedValues(from[i]) :
                                ~RefersTo(q, pair[1]) => q \in QuotedValues(to[i])

\* The roots of a walk: the project directory and three directories in it.
WalkRoots ==
    {ProjectDir} \cup {Join(ProjectDir, <<d>>) : d \in {"cmd", ".git", "vendor"}}

\* The directories on the way from root to the file p, root included.
DirsTo(root, p) == {p[k] : k \in Len(root) .. Len(p) - 1}

\* p is a source file under root outside hidden directories.
IsSource(f, root, p) ==
    /\ IsUnder(p, root)
    /\ ~f[p].dir
    /\ HasSuffix(Chars(Base(p)), DotGo)
    /\ \A d \in DirsTo(root, p) : ~HasPrefix(Chars(d), <<".">>)

\* The file at p as the rewrite leaves it when it is written.
RewrittenFile(f, p, pair) ==
    [f[p] EXCEPT !.data = replaceImportPaths(f[p].data, pair[1], pair[2])]

\* C22 as stated: updateImportPaths changes exactly the source files under
\* the root, outside version-control and hidden directories, whose content
\* the rewrite changes; it attempts no write of a source file without a
\* matching import and touches no other file.
C22_WritesExactlyChangedSourceFiles ==
    \A pair \in IdentityPairs, root \in WalkRoots :
        LET r == updateImportPaths(fs, root, pair[1], pair[2], IO("none", "-", FALSE, TRUE))
        IN  /\ r.err = "nil"
            /\ DOMAIN r.fs = DOMAIN fs
            /\ \A p \in DOMAIN fs :
                    r.fs[p] = IF IsSource(fs, root, p) THEN RewrittenFile(fs, p, pair)
                              ELSE fs[p]

\* C22 amended: the same, with the files inside a directory named vendor
\* left alone as well; and a source file is written only if the rewrite
\* changes its content.
C22_WritesExactlyChangedSourceFilesOutsideVendor ==
    \A pair \in IdentityPairs, root \in WalkRoots :
        LET r == updateImportPaths(fs, root, pair[1], pair[2], IO("none", "-", FALSE, TRUE))
        IN  /\ r.err = "nil"
            /\ DOMAIN r.fs = DOMAIN fs
            /\ \A p \in DOMAIN fs :
                    /\ r.fs[p] = IF IsSource(fs, root, p) /\ "vendor" \notin DirsTo(root, p)
                                  THEN RewrittenFile(fs, p, pair)
                                  ELSE fs[p]
                    /\ IsSource(fs, root, p) =>
                          (updateImportPathsInFile(fs, p, pair[1], pair[2],
                               IO("gowrite", Base(p), FALSE, TRUE)).err
                             = "failed to write file"
                           <=> RewrittenFile(fs, p, pair) # fs[p])

\* The two source files of the project import module n after a rewrite; the
\* files in .git and in vendor and the file config still import t/l.
C22_Witness ==
    /\ fs[MainGoPath].data = KwImport \o Quote \o <<"n", "/", "x">> \o Quote \o <<"\n">>
    /\ fs[Join(ProjectDir, <<"cmd", "util.go">>)].data = fs[MainGoPath].data
    /\ \A q \in OtherFiles \ {<<"cmd", "util.go">>} :
            fs[Join(ProjectDir, q)].data = MainGoText("layered")

\* The source files the walk from root comes to.
Walked(f, root) ==
    {p \in DOMAIN f : IsSource(f, root, p) /\ "vendor" \notin DirsTo(root, p)}

\* The failures of the read or the write of one source file.
FileFaults == {io \in RewriteIOs : io.fault \in {"goread", "gowrite"}}

\* C23: when the read or the write of a source file fails in
\* updateImportPaths, the walk goes on and nil is returned: a warning names
\* each file whose read failed or whose changed content could not be
\* written, those files are as they were, and every other file is as
\* after a run without failure.
C23_FileFailureIsWarnedAndIsolated ==
    \A pair \in IdentityPairs, io \in FileFaults :
        LET r == updateImportPaths(fs, ProjectDir, pair[1], pair[2], io)
            ok == updateImportPaths(fs, ProjectDir, pair[1], pair[2],
                                    IO("none", "-", FALSE, TRUE))
            failed == {p \in Walked(fs, ProjectDir) :
                          /\ Base(p) = io.failAt
                          /\ io.fault = "gowrite" => RewrittenFile(fs, p, pair) # fs[p]}
        IN  /\ r.err = "nil"
            /\ r.warned = failed
            /\ ok.warned = {}
            /\ \A p \in DOMAIN fs :
                    r.fs[p] = IF p \in failed THEN fs[p] ELSE ok.fs[p]

\* cmd/util.go was rewritten to module n in a walk in which main.go, which
\* still imports t/l, could not be read.
C23_Witness ==
    /\ fs[MainGoPath].data = MainGoText("layered")
    /\ fs[Join(ProjectDir, <<"cmd", "util.go">>)].data
          = KwImport \o Quote \o <<"n", "/", "x">> \o Quote \o <<"\n">>

----------------------------------------------------------------------------
(* Claims on Generate and on the cache across commands *)

\* C24: Generate with an empty project name, module path or architecture
\* returns the validation error, whatever the file system and the cache
\* hold: nothing is looked up, fetched, created or written.
C24_InvalidConfigRejectedBeforeIO ==
    \A cfg \in Configs, io \in GenerateIOs, lag \in BOOLEAN :
        LET r == Generate(World, "tm", "layered", cfg, io, lag)
        IN  /\ (cfg.ProjectName = "" \/ cfg.ModulePath = << >> \/ cfg.Architecture = "") =>
                    /\ r.ret = "config validation failed"
                    /\ r.w = World
                    /\ r.fetches = 0 /\ r.copies = 0 /\ r.customizes = 0
            /\ r.ret = "config validation failed" =>
                    cfg.ProjectName = "" \/ cfg.ModulePath = << >> \/ cfg.Architecture = ""

\* The project /work/app was generated, and the template is cached: a
\* configuration without module path is turned down for its module path,
\* not for the directory that exists.
C24_Witness ==
    /\ Exists(fs, Join(Cwd, <<"app", "go.mod">>))
    /\ doc.kind = "ok"
    /\ Generate(World, "tm", "layered", Config("app", << >>, "layered", << >>),
                IO("none", "-", FALSE, TRUE), FALSE).ret = "config validation failed"

\* The values of PICK_YOUR_GO_GITHUB_TOKEN.
Credentials == {<< >>, <<"k">>, <<"k", "y">>}

SchemeOf(url) ==
    IF HasPrefix(url, HttpsPrefix) THEN HttpsPrefix
    ELSE IF HasPrefix(url, HttpPrefix) THEN HttpPrefix
    ELSE << >>

\* C25: the URL handed to git for a template of the registry is its
\* repository URL when the token is empty, and otherwise the same scheme,
\* the token, "@", and the host and path of the repository; a fetch or a
\* forced update leaves the same metadata document whatever the token is,
\* and that document holds nothing but the key, the times and the path.
C25_CredentialOnlyInFetchURL ==
    /\ \A k \in DefaultTemplates, token \in Credentials :
            LET repo == Repository(k)
                url == buildAuthenticatedURL(repo, token)
            IN  /\ token = << >> => url = repo
                /\ token # << >> =>
                        /\ SchemeOf(url) = SchemeOf(repo)
                        /\ url = SchemeOf(repo) \o token \o <<"@">>
                                    \o TrimPrefix(repo, SchemeOf(repo))
                        /\ k \in Served(url)
    /\ \A k \in Keys, token \in Credentials \ {<< >>} :
            LET io == IO("none", "-", FALSE, TRUE)
                e == EnsureTemplateCached(World, "tm", k, WithToken(io, token)).w.doc
                u == UpdateTemplate(World, "tm", k, WithToken(io, token)).w.doc
            IN  /\ e = EnsureTemplateCached(World, "tm", k, io).w.doc
                /\ u = UpdateTemplate(World, "tm", k, io).w.doc
                /\ \A x \in DOMAIN u.templates :
                        u.templates[x] \in [cachedAt : Instants, lastChecked : Instants,
                                            path : {GetTemplateCachePath(x)}]

\* The modular template was fetched with a token: its tree is in the cache
\* and the document has its entry.
C25_Witness ==
    /\ doc.kind = "ok"
    /\ "modular" \in DOMAIN doc.templates
    /\ Exists(fs, Join(GetTemplateCachePath("modular"), <<"go.mod">>))
    /\ EnsureTemplateCached(World, "tm", "layered",
                            WithToken(IO("none", "-", FALSE, TRUE), <<"k">>)).ret = "nil"

\* The storage directory of key k holds every file of the template.
CompleteTree(f, k) ==
    \A r \in DOMAIN RemoteTree(k) :
        /\ Exists(f, Join(GetTemplateCachePath(k), r))
        /\ f[Join(GetTemplateCachePath(k), r)].data = RemoteTree(k)[r].data

CachedComplete(w) ==
    \A k \in Keys :
        IsCached(w, "tm", k).ret =>
            /\ Exists(w.fs, GetTemplateCachePath(k))
            /\ CompleteTree(w.fs, k)

\* C26: EnsureTemplateCached, UpdateTemplate and ClearTemplateCache keep,
\* whatever fails in them, the property that a key for which IsCached
\* answers true has its storage directory with the whole template tree in it.
C26_CachedImpliesCompleteTree ==
    CachedComplete(World) =>
        /\ \A in \in FetchInputs :
                /\ CachedComplete(EnsureTemplateCached(World, "tm", in[1], in[2]).w)
                /\ CachedComplete(UpdateTemplate(World, "tm", in[1], in[2]).w)
        /\ \A k \in Keys, fault \in {"none", "rm", "open", "trunc"} :
                CachedComplete(ClearTemplateCache(World, "tm", k,
                                                  IO(fault, "-", FALSE, TRUE)).w)

\* C27: in Generate, when EnsureTemplateCached returned nil, the
\* CopyTemplateToDestination that follows gets the path of the cached
\* template, also when the clock moved in between: it does not fail with
\* "template not cached".
C27_CopyAfterEnsureFindsTemplate ==
    \A io \in GenerateIOs, lag \in BOOLEAN :
        LET e == EnsureTemplateCached(World, "tm", "layered", io)
        IN  e.ret = "nil" =>
                CopyTemplateToDestination(
                    IF lag THEN [e.w EXCEPT !.now = Now(e.w, TRUE)] ELSE e.w,
                    "tm", "layered", Join(Cwd, <<"app">>), io).ret
                  # "failed to get template path"

\* The import paths of the file at path p: its quoted values.
ImportsOf(f, p) == UNION {QuotedValues(LinesOf(f, p)[i]) : i \in 1 .. Len(LinesOf(f, p))}

\* C28: after a Generate that returned nil, go.mod of the project declares
\* the module path of the configuration and cmd/main.go imports packages of
\* that module path, not of the module of the template.
C28_SuccessfulRunHasOneIdentity ==
    \A cfg \in Configs, io \in GenerateIOs :
        LET r == Generate(World, "tm", "layered", cfg, io, FALSE)
            projectPath == GetProjectPath(cfg, io)
        IN  r.ret = "nil" =>
                /\ Declares(r.w.fs, Join(projectPath, <<"go.mod">>))
                /\ DeclaredIdentity(r.w.fs, Join(projectPath, <<"go.mod">>))
                        = cfg.ModulePath
                /\ \A q \in ImportsOf(r.w.fs, Join(projectPath, <<"cmd", "main.go">>)) :
                        RefersTo(q, cfg.ModulePath)

\* C29: after ClearTemplateCache(k) returned nil on one manager, IsCached(k)
\* is false on the other manager, and an UpdateCacheTime of another key by
\* that other manager saves a document without an entry for k.
C29_ClearedKeyStaysClearedOnOtherManagers ==
    \A a \in Managers, b \in Managers, k \in Keys, j \in Keys :
        LET c == ClearTemplateCache(World, a, k, IO("none", "-", FALSE, TRUE))
            u == UpdateCacheTime(c.w, b, j, IO("none", "-", FALSE, TRUE))
        IN  (a # b /\ j # k /\ c.ret = "nil") =>
                /\ ~IsCached(c.w, b, k).ret
                /\ u.ret = "nil" => k \notin DOMAIN u.w.doc.templates

----------------------------------------------------------------------------
(* Claims on the scan of one line *)

\* The offsets a scan of line can be at.
Offsets(line) == 0 .. Len(line)

\* C30: an iteration of the loop of replaceModulePathInLine that starts at
\* an offset within the line takes slices within the line only
\* (0 <= low <= high <= length); when it does not leave the loop, the next
\* offset is larger, lies within the new line, and less of the line is
\* left behind it than before: the loop ends for every line of main.go and
\* every pair of identities.
C30_ScanAdvancesWithinBounds ==
    \A oldModule \in Identities, newModule \in Identities :
        \A i \in 1 .. Len(LinesOf(fs, MainGoPath)) :
            LET line == LinesOf(fs, MainGoPath)[i]
            IN  /\ \A start \in Offsets(line) :
                        LET s == replaceModulePathInLineStep(line, start, oldModule,
                                                             newModule)
                        IN  /\ \A x \in s.slices :
                                    0 <= x[1] /\ x[1] <= x[2] /\ x[2] <= Len(line)
                            /\ ~s.done =>
                                    /\ s.start > start
                                    /\ s.start \in Offsets(s.line)
                                    /\ Len(s.line) - s.start < Len(line) - start
                /\ Len(replaceModulePathInLine(line, oldModule, newModule)) >= 0

\* main.go holds a line with an import of the empty path and a line with
\* three quotes, whose import was rewritten to a longer path.
C30_Witness ==
    /\ <<"i", "m", "p", "o", "r", "t", " ", "\"", "\"">> \in
            {LinesOf(fs, MainGoPath)[i] : i \in 1 .. Len(LinesOf(fs, MainGoPath))}
    /\ <<"i", "m", "p", "o", "r", "t", " ", "\"", "t", "/", "l", "/", "v", "\"", " ", "\"">>
            \in {LinesOf(fs, MainGoPath)[i] : i \in 1 .. Len(LinesOf(fs, MainGoPath))}

====
